---------------------------- MODULE Spec2Model ----------------------------
(***************************************************************************)
(* A model of the crawl orchestration of xforce-io/crawlers:               *)
(* MultiSiteCrawler (crawler/caijing/core/crawler.py), its dedup cache     *)
(* (crawler/common/cache_manager.py) and the extraction gate               *)
(* (crawler/common/article.py, crawler/caijing/core/parser.py).            *)
(*                                                                         *)
(* The program runs on one asyncio event loop: a coroutine runs without    *)
(* interruption from one await that suspends to the next.  Every action    *)
(* below is one such uninterrupted segment.                                *)
(***************************************************************************)
EXTENDS Integers, Sequences, FiniteSets, TLC

(***************************************************************************)
(* Bounds of the model.  The crawler takes max_articles, max_per_site and  *)
(* concurrent_tasks as constructor arguments and max_articles_per_day from *)
(* the site profile; the model runs it with small values.                  *)
(***************************************************************************)
MaxArticles == 3

MaxPerSite == 2

MaxPerDay == 2

ConcurrentTasks == 2

\* the number of injected failures (fetch errors, file-system errors) of one pass
MaxFaults == 1

\* CacheManager.add_to_cache flushes when the number of cached URLs is a
\* multiple of this
SaveInterval == 100

\* len(article.summary) < 50 rejects the article
MinSummaryLen == 50

(***************************************************************************)
(* The sites.  A site profile is its domain string; site_configs keeps the *)
(* order of the configuration dictionary.                                  *)
(***************************************************************************)
D1 == "fin.example"

D2 == "example"

ConfigOrder == <<D1, D2>>

Domains == {ConfigOrder[i] : i \in 1..Len(ConfigOrder)}

(***************************************************************************)
(* The web the crawler sees: a fixed set of pages.  Of a URL the model     *)
(* keeps what the code reads from it: the configured domains occurring in  *)
(* its host (netloc) and in the whole URL string, whether it matches the   *)
(* article pattern, and the page behind it (links, title, date, body       *)
(* length).  "x" is a page of host news.fin.example: both domain strings   *)
(* occur in it.                                                            *)
(***************************************************************************)
NoUrl == "-"

Today == 0

NoDate == -1

Page(hostHas, urlHas, isArticle, links, title, age, bodyLen) ==
    [hostHas |-> hostHas, urlHas |-> urlHas, article |-> isArticle,
     links |-> links, title |-> title, age |-> age, bodyLen |-> bodyLen]

Web ==
    [s1  |-> Page({D1, D2}, {D1, D2}, FALSE, <<"x", "y", "w", "w", "off">>, <<>>, NoDate, 0),
     s2  |-> Page({D2}, {D2}, FALSE, <<"x", "z">>, <<>>, NoDate, 0),
     x   |-> Page({D1, D2}, {D1, D2}, TRUE, <<>>, <<"A">>, 0, 80),
     y   |-> Page({D1, D2}, {D1, D2}, TRUE, <<"y">>, <<"B">>, 1, 80),
     w   |-> Page({D1, D2}, {D1, D2}, TRUE, <<>>, <<"C">>, 0, 80),
     z   |-> Page({D2}, {D2}, TRUE, <<>>, <<"A">>, 0, 80),
     off |-> Page({}, {}, FALSE, <<>>, <<>>, NoDate, 0)]

Urls == DOMAIN Web

StartUrl == [d \in Domains |-> IF d = D1 THEN "s1" ELSE "s2"]

\* ARTICLE_RETENTION_DAYS
RetentionDays == 7

(***************************************************************************)
(* The durable files.  An article file is named by publish date, profile   *)
(* domain and cleaned title; the model keeps of its text the URL of its    *)
(* source line.  Truncated stands for a file that open(path, 'w') emptied  *)
(* before f.write failed.                                                  *)
(***************************************************************************)
Truncated == "?"

NoFile == [present |-> FALSE]

\* a cache file written by earlier runs: "z" and 98 URLs that are no longer
\* on the sites
OldFile ==
    [present |-> TRUE, urls |-> [d \in Domains |-> IF d = D2 THEN {"z"} ELSE {}],
     old |-> SaveInterval - 2]

InitialCacheFiles == {NoFile, OldFile}

IllegalChars == {"\\", "/", "*", "?", ":", "\"", "<", ">", "|"}

\* MultiSiteCrawler.clean_filename removes the characters no file name may hold
clean_filename(title) == SelectSeq(title, LAMBDA c : c \notin IllegalChars)

VARIABLES
    pass,                  \* which crawl pass (process run) this is
    site_configs,          \* the enabled profiles (their domains)
    crawl_pc,              \* where crawl() is
    site_pc,               \* where each crawl_site task is
    url_queues,            \* MultiSiteCrawler.url_queues
    visited_urls,          \* MultiSiteCrawler.visited_urls
    task,                  \* the fetch_url task of a domain and URL
    saved_articles_count,  \* MultiSiteCrawler.saved_articles_count
    total_articles,        \* MultiSiteCrawler.total_articles
    error_urls,            \* MultiSiteCrawler.error_urls
    error_count,           \* MultiSiteCrawler.stats[domain]['error_count']
    url_cache,             \* CacheManager.url_cache (URLs of the modelled web)
    cache_old,             \* the number of other URLs in CacheManager.url_cache
    cache_file,            \* url_cache.json
    files,                 \* the article files under save_dir
    faults,                \* failures injected so far in this pass
    commits,               \* history: per URL, the saves of this pass
    dispatched,            \* history: per domain and URL, the fetch tasks created
    files_first,           \* history: the files as the first pass left them
    ex_url,                \* extraction on its own: the URL of the page
    ex_page,               \* ... the page handed to _process_article
    ex_stage,              \* ... the call that returned last
    ex_article,            \* ... and what it returned
    dl_session,            \* Downloader.session (0 is None)
    dl_closed,             \* the sessions that were closed
    dl_made,               \* the number of sessions created so far
    dl_carried,            \* history: per session, the requests sent on it
    dl_pc,                 \* per get call, where it is
    dl_url,                \* per get call, the kind of URL it was given
    dl_local,              \* per get call, its local variable session
    dl_outcomes,           \* history: per get call, the outcome of each attempt
    dl_sleeps,             \* history: per get call, its backoff sleeps
    dl_last,               \* per get call, last_error
    dl_result,             \* per get call, what it returned or raised
    rb_now,                \* the clock, in days
    rb_file,               \* robots_cache.json: domain -> timestamp
    rb_pc,                 \* where the process and its RobotsParser are
    rb_failed,             \* RobotsParser.failed_domains
    rb_rules,              \* RobotsParser.robots_rules: domain -> parser
    rb_task,               \* the _fetch_robots tasks of this run
    rb_fetched,            \* history: per domain, the response of this run's fetch
    rb_failed_at,          \* history: per domain, the time its fetch last failed
    rb_parsed,             \* history: per domain, its last fetch that was parsed
    lk_site,               \* link filtering on its own: the site being crawled
    lk_link,               \* ... the link found on a fetched page
    lk_pc,                 \* ... the step done last
    lk_links,              \* ... what _extract_links returned
    lk_queue,              \* ... the site's frontier
    lk_fetched,            \* ... the links a fetch task was created for
    pd_page,               \* extract_publish_date on its own: the date sources
    pd_pc,                 \* ... whether it has returned
    pd_result,             \* ... what it returned
    de_written,            \* extract_date on its own: the date and how it is written
    de_text,               \* ... the text, character by character
    de_now,                \* ... the wall clock
    de_ticks,              \* ... the days the clock has advanced
    de_cache,              \* ... the results lru_cache keeps, by text
    de_pc,                 \* ... whether the call has returned
    de_result,             \* ... what it returned
    cl_lines,              \* the paragraph loop of _clean_content on its own: the lines
    cl_next,               \* ... the line the loop comes to next
    cl_found,              \* ... valid_content_found
    cl_blank,              \* ... empty_line_count
    cl_seen,               \* ... seen_content
    cl_kept,               \* ... the places of the lines in unique_paragraphs
    cl_pc,                 \* ... whether the loop has ended, and how
    pp_listing,            \* PaperCrawler.crawl on its own: the links of the start page
    pp_count,              \* ... PageCount.count
    pp_cache,              \* ... the URLs in URLCacheManager's cache
    pp_stored,             \* ... the paper files that exist
    pp_next,               \* ... the link the pass comes to next
    pp_saved,              \* history: the papers the current pass has saved
    pp_pc                  \* ... where crawl is

cvars == <<pass, site_configs, crawl_pc, site_pc, url_queues, visited_urls, task,
           saved_articles_count, total_articles, error_urls, error_count, url_cache, cache_old,
           cache_file, files, faults, commits, dispatched, files_first>>

exvars == <<ex_url, ex_page, ex_stage, ex_article>>

dlvars == <<dl_session, dl_closed, dl_made, dl_carried, dl_pc, dl_url, dl_local,
            dl_outcomes, dl_sleeps, dl_last, dl_result>>

rbvars == <<rb_now, rb_file, rb_pc, rb_failed, rb_rules, rb_task, rb_fetched,
            rb_failed_at, rb_parsed>>

\* what the crawl leaves alone, and what the extraction leaves alone
lkvars == <<lk_site, lk_link, lk_pc, lk_links, lk_queue, lk_fetched>>

pdvars == <<pd_page, pd_pc, pd_result>>

devars == <<de_written, de_text, de_now, de_ticks, de_cache, de_pc, de_result>>

clvars == <<cl_lines, cl_next, cl_found, cl_blank, cl_seen, cl_kept, cl_pc>>

dtvars == <<pdvars, devars, clvars>>

ppvars == <<pp_listing, pp_count, pp_cache, pp_stored, pp_next, pp_saved, pp_pc>>

noncrawl == <<exvars, dlvars, rbvars, lkvars, dtvars, ppvars>>

nonex == <<cvars, dlvars, rbvars, lkvars, dtvars, ppvars>>

\* what the Downloader leaves alone, and what the RobotsParser leaves alone
nondl == <<cvars, exvars, rbvars, lkvars, dtvars, ppvars>>

nonrb == <<cvars, exvars, dlvars, lkvars, dtvars, ppvars>>

\* what link filtering on its own leaves alone
nonlk == <<cvars, exvars, dlvars, rbvars, dtvars, ppvars>>

\* what the date extraction on its own leaves alone
nondt == <<cvars, exvars, dlvars, rbvars, lkvars, ppvars>>

\* what the paper crawler leaves alone
nonpp == <<cvars, exvars, dlvars, rbvars, lkvars, dtvars>>

vars == <<cvars, exvars, dlvars, rbvars, lkvars, dtvars, ppvars>>

(***************************************************************************)
(* Pure functions of the crawler.                                          *)
(***************************************************************************)
NoConfig == "none"

RECURSIVE FirstMatch(_, _)
FirstMatch(order, has) ==
    IF order = <<>> THEN NoConfig
    ELSE IF Head(order) \in has THEN Head(order) ELSE FirstMatch(Tail(order), has)

\* MultiSiteCrawler.get_site_config: the first enabled profile, in the order
\* of the configuration, whose domain string occurs in the URL
get_site_config(url) ==
    FirstMatch(SelectSeq(ConfigOrder, LAMBDA d : d \in site_configs), Web[url].urlHas)

\* MultiSiteCrawler.is_article_page: a missing profile raises inside and
\* gives False
is_article_page(url, config) == config # NoConfig /\ Web[url].article

\* MultiSiteCrawler.is_valid_url, its host check: the domain occurs in netloc
is_valid_url(url, current_domain) == current_domain \in Web[url].hostHas

\* MultiSiteCrawler._extract_links: the page's links that pass is_valid_url
extract_links(url, domain) ==
    SelectSeq(Web[url].links, LAMBDA l : is_valid_url(l, domain))

\* is_cached with the lookup left out: nothing counts as cached
is_cached_never(url, domain) == FALSE

\* CacheManager.is_cached
is_cached(url, domain) == url \in url_cache[domain]

\* sum(len(urls) for urls in self.url_cache.values())
RECURSIVE SumCard(_, _)
SumCard(cache, ds) ==
    IF ds = {} THEN 0
    ELSE LET d == CHOOSE e \in ds : TRUE
         IN Cardinality(cache[d]) + SumCard(cache, ds \ {d})

CacheSize(cache) == cache_old + SumCard(cache, Domains)

(***************************************************************************)
(* Extraction.  A raw page has a title (maybe empty), a date (maybe none)  *)
(* and a body of some length.                                              *)
(***************************************************************************)
NoArticle == [none |-> TRUE]

MkArticle(url, page) ==
    [url |-> url, title |-> page.title, age |-> page.age, bodyLen |-> page.bodyLen]

\* from_html without the publish_date test
from_html_no_date(url, page) ==
    IF page.title = <<>> THEN NoArticle
    ELSE IF page.bodyLen = 0 THEN NoArticle
    ELSE MkArticle(url, page)

\* Article.from_html: no article unless title, publish_date and summary are set
from_html(url, page) ==
    IF page.title = <<>> THEN NoArticle
    ELSE IF page.age = NoDate THEN NoArticle
    ELSE IF page.bodyLen = 0 THEN NoArticle
    ELSE MkArticle(url, page)

\* ArticleParser.parse_article, after from_html: title and summary once more
ParserCheck(article) ==
    IF article = NoArticle THEN NoArticle
    ELSE IF article.title = <<>> \/ article.bodyLen = 0 THEN NoArticle
    ELSE article

\* ArticleParser.parse_article
ArticleParser_parse_article(url, page) == ParserCheck(from_html(url, page))

\* Article.is_within_retention_period: (now - date).days <= retention_days
is_within_retention_period(age, retention_days) == age <= retention_days

\* the directory and file name save_article derives
ArticlePath(article, domain) ==
    LET title == clean_filename(article.title)
    IN <<article.age, domain,
         IF title = <<>> THEN <<"article_", article.url>> ELSE title>>

Titles == {Web[u].title : u \in Urls} \ {<<>>}

Ages == {Web[u].age : u \in Urls} \ {NoDate}

Paths == {<<a, d, clean_filename(t)>> : a \in Ages, d \in Domains, t \in Titles}

\* MultiSiteCrawler.get_today_article_count: the .txt files of today's
\* directory of the domain
get_today_article_count(domain) ==
    Cardinality({p \in Paths : p[1] = Today /\ p[2] = domain /\ files[p] # NoUrl})

\* check 5 with the per-site cap left out
QuotaReachedGlobalOnly(domain) == total_articles >= MaxArticles

\* MultiSiteCrawler.parse_article, check 5: a cap is reached
QuotaReached(domain) ==
    \/ saved_articles_count[domain] >= MaxPerSite
    \/ total_articles >= MaxArticles

\* checks 3 to 6 with the length check left out
StoreChecksNoLength(article, domain) ==
    IF article = NoArticle THEN NoArticle
    ELSE IF ~is_within_retention_period(article.age, RetentionDays) THEN NoArticle
    ELSE IF QuotaReached(domain) THEN NoArticle
    ELSE IF get_today_article_count(domain) >= MaxPerDay THEN NoArticle
    ELSE article

\* MultiSiteCrawler.parse_article, checks 3 to 6 on the parser's result
StoreChecks(article, domain) ==
    IF article = NoArticle THEN NoArticle
    ELSE IF ~is_within_retention_period(article.age, RetentionDays) THEN NoArticle
    ELSE IF article.bodyLen < MinSummaryLen THEN NoArticle
    ELSE IF QuotaReached(domain) THEN NoArticle
    ELSE IF get_today_article_count(domain) >= MaxPerDay THEN NoArticle
    ELSE article

\* MultiSiteCrawler.parse_article: the article, or NoArticle when a check
\* rejects it
parse_article(url, domain, page) ==
    IF is_cached(url, domain) THEN NoArticle
    ELSE StoreChecks(ArticleParser_parse_article(url, page), domain)

(***************************************************************************)
(* The state after MultiSiteCrawler.__init__: every queue holds the start  *)
(* URL, the counters are 0, the dedup cache is loaded from url_cache.json. *)
(***************************************************************************)
\* CacheManager._load_cache and init_domain
LoadedCache(file) ==
    [d \in Domains |-> IF file.present THEN file.urls[d] ELSE {}]

LoadedOld(file) == IF file.present THEN file.old ELSE 0

\* the fields of a MultiSiteCrawler that __init__ sets
Fields_init(enabled, file) ==
    /\ site_configs = enabled
    /\ site_pc = [d \in Domains |-> "none"]
    /\ url_queues = [d \in Domains |-> IF d \in enabled THEN <<StartUrl[d]>> ELSE <<>>]
    /\ visited_urls = [d \in Domains |-> {}]
    /\ task = [d \in Domains |-> [u \in Urls |-> "none"]]
    /\ saved_articles_count = [d \in Domains |-> 0]
    /\ total_articles = 0
    /\ error_urls = [d \in Domains |-> {}]
    /\ error_count = [d \in Domains |-> 0]
    /\ url_cache = LoadedCache(file)
    /\ cache_old = LoadedOld(file)
    /\ faults = 0
    /\ commits = [u \in Urls |-> 0]
    /\ dispatched = [d \in Domains |-> [u \in Urls |-> 0]]

Constructed(enabled, file) ==
    /\ crawl_pc = "init"
    /\ Fields_init(enabled, file)

NoPage == Page({}, {}, FALSE, <<>>, <<>>, NoDate, 0)

(***************************************************************************)
(* Downloader (common/downloader.py): the state one Downloader object and  *)
(* the get calls running on it have.                                       *)
(***************************************************************************)
RetryTimes == 2

\* the get calls that run on the Downloader at the same time
Calls == {"a", "b"}

\* every attempt may create a session
Sessions == 1 .. (Cardinality(Calls) * RetryTimes)

\* "ok" has scheme and host and resolves; the others lack one of the three
UrlKinds == {"ok", "no_scheme", "no_host", "no_dns"}

NoError == [class |-> "none", kind |-> "none", attempt |-> 0]

Pending == [value |-> "pending", error |-> NoError]

\* Downloader.__init__, and no get call made
DlConstructed ==
    /\ dl_session = 0
    /\ dl_closed = {}
    /\ dl_made = 0
    /\ dl_carried = [s \in Sessions |-> {}]
    /\ dl_pc = [c \in Calls |-> "new"]
    /\ dl_local = [c \in Calls |-> 0]
    /\ dl_outcomes = [c \in Calls |-> <<>>]
    /\ dl_sleeps = [c \in Calls |-> 0]
    /\ dl_last = [c \in Calls |-> NoError]
    /\ dl_result = [c \in Calls |-> Pending]

DlIdle ==
    /\ DlConstructed
    /\ dl_url = [c \in Calls |-> "ok"]

(***************************************************************************)
(* RobotsParser (common/robots_parser.py): the cache file of failed        *)
(* domains, which outlives the process, and the parser object of a run.    *)
(***************************************************************************)
MaxDay == 8

\* cache_ttl, in days
CacheTtl == 7

NoStamp == -1

\* a robots.txt as its Disallow lines, each under the user-agent of its group
RobotsTexts ==
    { <<>>,
      <<[agent |-> "bot", path |-> "x"]>>,
      <<[agent |-> "bot", path |-> "x"], [agent |-> "*", path |-> "y"]>> }

NoText == <<>>

NoResponse == [status |-> "none", text |-> NoText]

\* what client.get can end as: 200 with a text, another status, a timeout,
\* any other exception
Responses ==
    [status : {"200"}, text : RobotsTexts]
        \cup [status : {"404", "timeout", "exception"}, text : {NoText}]

NoEntries == [d \in {} |-> NoStamp]

\* no process runs; robots_cache.json does not exist
RbIdle ==
    /\ rb_now = 0
    /\ rb_file = NoEntries
    /\ rb_pc = "off"
    /\ rb_failed = {}
    /\ rb_rules = [d \in {} |-> NoText]
    /\ rb_task = [d \in Domains |-> "none"]
    /\ rb_fetched = [d \in Domains |-> NoResponse]
    /\ rb_failed_at = [d \in Domains |-> NoStamp]
    /\ rb_parsed = [d \in Domains |-> [at |-> NoStamp, text |-> NoText]]

(***************************************************************************)
(* Link filtering (MultiSiteCrawler.is_valid_url).  Of a link the model    *)
(* keeps what is_valid_url reads from it; of a site, the branch of         *)
(* is_valid_url its domain takes and the exclude patterns of its profile.  *)
(***************************************************************************)
\* "if delta.days > 90"
FreshDays == 90

\* a date in the path that is no calendar date, such as /20241301/
BadDate == -2

\* the ages, in days, of the date a link's path may carry
LinkDates == {NoDate, BadDate, 0, FreshDays, FreshDays + 1, FreshDays + 30}

\* anchor: the href starts with "#", "javascript:" or "mailto:";
\* host: in the site's list of allowed hosts ("listed"), another host that
\* holds the site's domain ("sub"), or neither ("foreign");
\* shape: matches .*/\d{8}/c\d+\.s?html$ ; mark: what the thepaper.cn
\* branch looks for; excl: holds a "?" ("query"), or a section such as
\* /special/ ("section")
\* (a link of that shape carries a date)
Links ==
    {l \in [anchor : BOOLEAN, robots : BOOLEAN, host : {"listed", "sub", "foreign"},
             scheme : BOOLEAN, media : BOOLEAN, date : LinkDates, shape : BOOLEAN,
             mark : {"detail", "detail_bad", "channel", "none"},
             excl : {"none", "query", "section"}] :
        l.shape => l.date # NoDate}

NoLink ==
    [anchor |-> FALSE, robots |-> TRUE, host |-> "foreign", scheme |-> TRUE, media |-> FALSE,
     date |-> NoDate, shape |-> FALSE, mark |-> "none", excl |-> "none"]

\* the sites by the branch of is_valid_url; "plain" are yicai.com and
\* finance.sina.com.cn
Sites == {"10jqka", "caijing", "caixin", "thepaper", "plain"}

\* SiteConfig.exclude_patterns of the profiles
exclude_patterns(site) ==
    CASE site \in {"10jqka", "caijing"} -> {"section"}
      [] site \in {"caixin", "thepaper"} -> {"query", "section"}
      [] OTHER -> {}

\* no link filtering on its own is under way
LkIdle ==
    /\ lk_site = "plain"
    /\ lk_link = NoLink
    /\ lk_pc = "idle"
    /\ lk_links = <<>>
    /\ lk_queue = <<>>
    /\ lk_fetched = {}

(***************************************************************************)
(* Date extraction (common/article.py, common/date_extractor.py).  A text  *)
(* is the sequence of its characters.  For extract_publish_date the model  *)
(* keeps of each date source whether it is there and whether its text      *)
(* parses.                                                                 *)
(***************************************************************************)
\* a source is absent, holds a text no pattern of DateExtractor parses
\* ("garbage"), a text only the profile's date_format parses ("format"),
\* or a text DateExtractor parses ("date"); the URL path holds no date, a
\* date, or digits that are no calendar date ("bad")
TextKinds == {"absent", "garbage", "format", "date"}

\* the profile describes its selectors as a dictionary (with or without a
\* date_format), as the attribute date_selectors, or not at all
ConfigKinds == {"selectors", "selectors_format", "date_selectors", "none"}

DatePages ==
    [body : {"absent", "garbage", "date"}, meta : {"absent", "garbage", "date"},
     profile : TextKinds, config : ConfigKinds, url : {"absent", "bad", "date"}]

\* the date each source holds, when it holds one
BodyDate == [year |-> 2024, month |-> 1, day |-> 1]

MetaDate == [year |-> 2024, month |-> 1, day |-> 2]

ProfileDate == [year |-> 2024, month |-> 1, day |-> 3]

UrlDate == [year |-> 2024, month |-> 1, day |-> 4]

\* None
NoResult == [year |-> 0, month |-> 0, day |-> 0]

\* a text that is no rendering of a date
Literal(name) == [format |-> "literal", name |-> name, year |-> 0, month |-> 0, day |-> 0,
                  prefix |-> "none"]

\* the clock of a process that extracts no date from a text
Epoch == [year |-> 2024, month |-> 1, day |-> 1, minute |-> 0]

\* no extract_publish_date on its own is under way
PdIdle ==
    /\ pd_page = [body |-> "absent", meta |-> "absent", profile |-> "absent",
                  config |-> "none", url |-> "absent"]
    /\ pd_pc = "idle"
    /\ pd_result = NoResult

\* no extract_date on its own is under way
DeIdle ==
    /\ de_written = Literal("empty")
    /\ de_text = <<>>
    /\ de_now = Epoch
    /\ de_ticks = 0
    /\ de_cache = {}
    /\ de_pc = "idle"
    /\ de_result = NoResult

\* no date extraction on its own is under way
\* no paragraph loop on its own is under way
ClIdle ==
    /\ cl_lines = <<>>
    /\ cl_next = 1
    /\ cl_found = FALSE
    /\ cl_blank = 0
    /\ cl_seen = {}
    /\ cl_kept = <<>>
    /\ cl_pc = "idle"

DtIdle == PdIdle /\ DeIdle /\ ClIdle

(***************************************************************************)
(* PaperCrawler (paper/paper_crawler.py).  Of a paper the model keeps its  *)
(* URL and the file its date and title lead to.                            *)
(***************************************************************************)
\* CRAWL_LIMITS['max_pages_per_source']
MaxPages == 2

Papers == {"p1", "p2", "p3"}

\* date directory and safe_title: p1 and p2 lead to the same file
FileOf == [p1 |-> "f1", p2 |-> "f1", p3 |-> "f2"]

PaperFiles == {FileOf[p] : p \in Papers}

\* the paper links a pass over the start page meets, in page order
Listings ==
    {l \in UNION {[1 .. n -> Papers] : n \in 1 .. Cardinality(Papers)} :
        \A i, j \in 1 .. Len(l) : i # j => l[i] # l[j]}

\* no PaperCrawler runs
PpIdle ==
    /\ pp_listing = <<>>
    /\ pp_count = 0
    /\ pp_cache = {}
    /\ pp_stored = {}
    /\ pp_next = 1
    /\ pp_saved = 0
    /\ pp_pc = "idle"

\* no extraction on its own is under way
ExIdle ==
    /\ ex_url = NoUrl
    /\ ex_page = NoPage
    /\ ex_stage = "idle"
    /\ ex_article = NoArticle

Init ==
    /\ pass = "first"
    /\ cache_file \in InitialCacheFiles
    /\ files = [p \in Paths |-> NoUrl]
    /\ files_first = [p \in Paths |-> NoUrl]
    /\ Constructed(Domains, cache_file)
    /\ ExIdle
    /\ DlIdle
    /\ RbIdle
    /\ LkIdle
    /\ DtIdle
    /\ PpIdle

(***************************************************************************)
(* crawl_site.  Between two awaits the loop handles the finished tasks,    *)
(* tests its condition and creates tasks up to the concurrency limit.      *)
(***************************************************************************)
Unfinished(d) == {u \in Urls : task[d][u] \in {"created", "inflight"}}

Finished(d) == {u \in Urls : task[d][u] \in {"ok", "err"}}

InFlight(d) == {u \in Urls : task[d][u] = "inflight"}

\* the inner loop without its bound on len(tasks)
MayDispatchAlways(n) == TRUE

\* crawl_site's inner loop condition, len(tasks) < self.concurrent_tasks
MayDispatch(n) == n < ConcurrentTasks

\* the dispatch without the visited test
NotVisitedAlways(url, visited) == TRUE

\* crawl_site's test before create_task: url not in self.visited_urls[domain]
NotVisited(url, visited) == url \notin visited

\* the inner while loop: pops URLs and creates a task for each one not visited
RECURSIVE DispatchLoop(_, _, _, _)
DispatchLoop(queue, visited, n, new) ==
    IF MayDispatch(n) /\ queue # <<>>
    THEN LET url == Head(queue)
         IN IF NotVisited(url, visited)
            THEN DispatchLoop(Tail(queue), visited \cup {url}, n + 1, Append(new, url))
            ELSE DispatchLoop(Tail(queue), visited, n, new)
    ELSE [queue |-> queue, visited |-> visited, new |-> new]

\* the outer loop condition
LoopCondition(d, queue) ==
    /\ queue # <<>>
    /\ total_articles < MaxArticles
    /\ saved_articles_count[d] < MaxPerSite

RECURSIVE CountIn(_, _)
CountIn(seq, u) ==
    IF seq = <<>> THEN 0
    ELSE (IF Head(seq) = u THEN 1 ELSE 0) + CountIn(Tail(seq), u)

\* From the top of the while loop to the next await (or to the return), with
\* queue the frontier and base the task states after the finished tasks were
\* handled.
LoopTop(d, queue, base) ==
    IF ~LoopCondition(d, queue)
    THEN /\ site_pc' = [site_pc EXCEPT ![d] = "done"]
         /\ url_queues' = [url_queues EXCEPT ![d] = queue]
         /\ task' = [task EXCEPT ![d] = base]
         /\ UNCHANGED <<visited_urls, dispatched>>
    ELSE LET pending == {u \in Urls : base[u] \in {"created", "inflight"}}
             r == DispatchLoop(queue, visited_urls[d], Cardinality(pending), <<>>)
             new == {r.new[i] : i \in 1..Len(r.new)}
         IN /\ url_queues' = [url_queues EXCEPT ![d] = r.queue]
            /\ visited_urls' = [visited_urls EXCEPT ![d] = r.visited]
            /\ task' = [task EXCEPT ![d] =
                          [u \in Urls |-> IF u \in new THEN "created" ELSE base[u]]]
            /\ dispatched' = [dispatched EXCEPT ![d] =
                                [u \in Urls |-> @[u] + CountIn(r.new, u)]]
            \* if not tasks: break
            /\ site_pc' = [site_pc EXCEPT ![d] =
                             IF pending \cup new = {} THEN "done" ELSE "wait"]

\* The crawl_site task runs for the first time.
SiteStart(d) ==
    /\ UNCHANGED noncrawl
    /\ site_pc[d] = "new"
    /\ LoopTop(d, url_queues[d], task[d])
    /\ UNCHANGED <<pass, site_configs, crawl_pc, saved_articles_count, total_articles,
                   error_urls, error_count, url_cache, cache_old, cache_file, files, faults,
                   commits, files_first>>

\* the links a finished task returned: none after an error
ResultLinks(d, u) == IF task[d][u] = "ok" THEN extract_links(u, d) ELSE <<>>

RECURSIVE ExtendAll(_, _, _)
ExtendAll(d, queue, order) ==
    IF order = <<>> THEN queue
    ELSE ExtendAll(d, queue \o ResultLinks(d, Head(order)), Tail(order))

\* the orders in which "for task in done" may meet the finished tasks
Orders(S) ==
    {o \in [1..Cardinality(S) -> S] : \A i, j \in 1..Cardinality(S) : i # j => o[i] # o[j]}

\* the cap test of "for task in done" with the per-site cap left out
CapReachedGlobalOnly(d) == total_articles >= MaxArticles

\* crawl_site's test after "await task": a cap is reached
CapReached(d) ==
    total_articles >= MaxArticles \/ saved_articles_count[d] >= MaxPerSite

\* asyncio.wait returned: the finished tasks are handled.  With a cap reached
\* the pending tasks are cancelled and crawl_site returns.
SiteWake(d) ==
    /\ UNCHANGED noncrawl
    /\ site_pc[d] = "wait"
    /\ Finished(d) # {}
    /\ IF CapReached(d)
       THEN /\ task' = [task EXCEPT ![d] =
                          [u \in Urls |->
                             IF u \in Unfinished(d) THEN "cancelled"
                             ELSE IF u \in Finished(d) THEN "joined"
                             ELSE @[u]]]
            /\ site_pc' = [site_pc EXCEPT ![d] = "done"]
            /\ UNCHANGED <<url_queues, visited_urls, dispatched>>
       ELSE \E order \in Orders(Finished(d)) :
              LoopTop(d, ExtendAll(d, url_queues[d], order),
                      [u \in Urls |-> IF u \in Finished(d) THEN "joined" ELSE task[d][u]])
    /\ UNCHANGED <<pass, site_configs, crawl_pc, saved_articles_count, total_articles,
                   error_urls, error_count, url_cache, cache_old, cache_file, files, faults,
                   commits, files_first>>

(***************************************************************************)
(* save_article and the dedup cache.                                       *)
(***************************************************************************)
IoOutcomes == {"ok", "mkdir_fail", "read_fail", "open_fail", "write_fail"}

Skipped == [files |-> files, counted |-> FALSE, cached |-> FALSE]

\* save_article marking the URL cached although the write failed
save_article_cache_on_fail(article, domain, io) ==
    LET path == ArticlePath(article, domain)
    IN IF io = "mkdir_fail" THEN Skipped
       ELSE IF files[path] # NoUrl /\ io = "read_fail" THEN Skipped
       ELSE IF files[path] = article.url THEN Skipped
       ELSE IF io = "open_fail" THEN Skipped
       ELSE IF io = "write_fail"
       THEN [files |-> [files EXCEPT ![path] = Truncated],
             counted |-> FALSE, cached |-> TRUE]
       ELSE [files |-> [files EXCEPT ![path] = article.url],
             counted |-> TRUE, cached |-> TRUE]

\* save_article without the test for a file that already holds the URL
save_article_no_skip(article, domain, io) ==
    LET path == ArticlePath(article, domain)
    IN IF io = "mkdir_fail" THEN Skipped
       ELSE IF files[path] # NoUrl /\ io = "read_fail" THEN Skipped
       ELSE IF io = "open_fail" THEN Skipped
       ELSE IF io = "write_fail"
       THEN [files |-> [files EXCEPT ![path] = Truncated],
             counted |-> FALSE, cached |-> FALSE]
       ELSE [files |-> [files EXCEPT ![path] = article.url],
             counted |-> TRUE, cached |-> TRUE]

\* save_article counting the article although f.write failed
save_article_count_on_fail(article, domain, io) ==
    LET path == ArticlePath(article, domain)
    IN IF io = "mkdir_fail" THEN Skipped
       ELSE IF files[path] # NoUrl /\ io = "read_fail" THEN Skipped
       ELSE IF files[path] = article.url THEN Skipped
       ELSE IF io = "open_fail" THEN Skipped
       ELSE IF io = "write_fail"
       THEN [files |-> [files EXCEPT ![path] = Truncated],
             counted |-> TRUE, cached |-> FALSE]
       ELSE [files |-> [files EXCEPT ![path] = article.url],
             counted |-> TRUE, cached |-> TRUE]

\* MultiSiteCrawler.save_article under file-system outcome io: the files it
\* leaves, whether it counted the article and whether it marked the URL cached
save_article(article, domain, io) ==
    LET path == ArticlePath(article, domain)
    IN IF io = "mkdir_fail" THEN Skipped
       ELSE IF files[path] # NoUrl /\ io = "read_fail" THEN Skipped
       ELSE IF files[path] = article.url THEN Skipped
       ELSE IF io = "open_fail" THEN Skipped
       ELSE IF io = "write_fail"
       THEN [files |-> [files EXCEPT ![path] = Truncated],
             counted |-> FALSE, cached |-> FALSE]
       ELSE [files |-> [files EXCEPT ![path] = article.url],
             counted |-> TRUE, cached |-> TRUE]

\* the file-system outcomes that can occur on the way save_article takes
IoApplies(article, domain, io) ==
    LET path == ArticlePath(article, domain)
    IN CASE io = "read_fail" -> files[path] # NoUrl
         [] io \in {"open_fail", "write_fail"} -> files[path] # article.url
         [] OTHER -> TRUE

\* CacheManager.add_to_cache: the set after the add
add_to_cache(cache, url, domain) == [cache EXCEPT ![domain] = @ \cup {url}]

\* CacheManager.add_to_cache: it saves the cache when the number of cached
\* URLs is a multiple of SaveInterval
FlushDue(cache) == CacheSize(cache) % SaveInterval = 0

\* CacheManager._save_cache
SavedCache(cache) == [present |-> TRUE, urls |-> cache, old |-> cache_old]

\* _process_article taking the profile of the crawling domain
process_config_own(url, domain) == domain

\* MultiSiteCrawler._process_article: the profile it parses and saves under
process_config(url, domain) == get_site_config(url)

\* _process_article: parse_article, then save_article for an accepted article
ProcessArticle(u, d, page) ==
    LET config == process_config(u, d)
        article == parse_article(u, config, page)
    IN IF article = NoArticle
       THEN UNCHANGED <<saved_articles_count, total_articles, url_cache, cache_file,
                        files, faults, commits>>
       ELSE \E io \in IoOutcomes :
              /\ io = "ok" \/ faults < MaxFaults
              /\ IoApplies(article, config, io)
              /\ LET r == save_article(article, config, io)
                     cache == IF r.cached THEN add_to_cache(url_cache, u, config)
                              ELSE url_cache
                 IN /\ files' = r.files
                    /\ saved_articles_count' =
                         IF r.counted
                         THEN [saved_articles_count EXCEPT ![config] = @ + 1]
                         ELSE saved_articles_count
                    /\ total_articles' = total_articles + (IF r.counted THEN 1 ELSE 0)
                    /\ commits' = IF r.counted THEN [commits EXCEPT ![u] = @ + 1]
                                  ELSE commits
                    /\ url_cache' = cache
                    /\ cache_file' = IF r.cached /\ FlushDue(cache)
                                     THEN SavedCache(cache) ELSE cache_file
                    /\ faults' = faults + (IF io = "ok" THEN 0 ELSE 1)

(***************************************************************************)
(* fetch_url.                                                              *)
(***************************************************************************)
Running == crawl_pc \in {"running", "returned"}

\* The task runs for the first time: it enters the limiter and suspends in
\* Downloader.get, or Downloader.get raises at once (URL or DNS check).
TaskStart(d, u) ==
    /\ UNCHANGED noncrawl
    /\ Running
    /\ task[d][u] = "created"
    /\ Cardinality(InFlight(d)) < ConcurrentTasks
    /\ \/ /\ task' = [task EXCEPT ![d][u] = "inflight"]
          /\ UNCHANGED <<error_urls, error_count, faults>>
       \/ /\ faults < MaxFaults
          /\ faults' = faults + 1
          /\ task' = [task EXCEPT ![d][u] = "err"]
          /\ error_urls' = [error_urls EXCEPT ![d] = @ \cup {u}]
          /\ error_count' = [error_count EXCEPT ![d] = @ + 1]
    /\ UNCHANGED <<pass, site_configs, crawl_pc, site_pc, url_queues, visited_urls,
                   saved_articles_count, total_articles, url_cache, cache_old,
                   cache_file, files, commits, dispatched, files_first>>

\* Downloader.get returned a response: links are extracted and an article
\* page is parsed and saved, all before the task returns.
FetchOk(d, u) ==
    /\ UNCHANGED noncrawl
    /\ Running
    /\ task[d][u] = "inflight"
    /\ task' = [task EXCEPT ![d][u] = "ok"]
    /\ IF is_article_page(u, get_site_config(u))
       THEN ProcessArticle(u, d, Web[u])
       ELSE UNCHANGED <<saved_articles_count, total_articles, url_cache, cache_file,
                        files, faults, commits>>
    /\ UNCHANGED <<pass, site_configs, crawl_pc, site_pc, url_queues, visited_urls,
                   error_urls, error_count, cache_old, dispatched, files_first>>

\* fetch_url with an except branch that does not record the URL
FetchErrorUnrecorded(d, u) ==
    /\ UNCHANGED noncrawl
    /\ Running
    /\ task[d][u] = "inflight"
    /\ faults < MaxFaults
    /\ faults' = faults + 1
    /\ task' = [task EXCEPT ![d][u] = "err"]
    /\ error_count' = [error_count EXCEPT ![d] = @ + 1]
    /\ UNCHANGED <<pass, site_configs, crawl_pc, site_pc, url_queues, visited_urls,
                   saved_articles_count, total_articles, error_urls, url_cache,
                   cache_old, cache_file, files, commits, dispatched, files_first>>

\* Downloader.get raised after its retries, or handling the page raised.
FetchError(d, u) ==
    /\ UNCHANGED noncrawl
    /\ Running
    /\ task[d][u] = "inflight"
    /\ faults < MaxFaults
    /\ faults' = faults + 1
    /\ task' = [task EXCEPT ![d][u] = "err"]
    /\ error_urls' = [error_urls EXCEPT ![d] = @ \cup {u}]
    /\ error_count' = [error_count EXCEPT ![d] = @ + 1]
    /\ UNCHANGED <<pass, site_configs, crawl_pc, site_pc, url_queues, visited_urls,
                   saved_articles_count, total_articles, url_cache, cache_old,
                   cache_file, files, commits, dispatched, files_first>>

(***************************************************************************)
(* crawl, and the end of the process.                                      *)
(***************************************************************************)
\* crawl() creates one crawl_site task per enabled profile.
CrawlStart ==
    /\ UNCHANGED noncrawl
    /\ crawl_pc = "init"
    /\ crawl_pc' = "running"
    /\ site_pc' = [d \in Domains |-> IF d \in site_configs THEN "new" ELSE "none"]
    /\ UNCHANGED <<pass, site_configs, url_queues, visited_urls, task,
                   saved_articles_count, total_articles, error_urls, error_count, url_cache,
                   cache_old, cache_file, files, faults, commits, dispatched,
                   files_first>>

\* crawl() cancelling the remaining site tasks whenever one has finished
GlobalCapReachedAlways == TRUE

\* crawl()'s test after the finished site tasks were handled
GlobalCapReached == total_articles >= MaxArticles

\* crawl()'s loop never finding its task list empty
CrawlLoopEndsNever(pending) == FALSE

\* crawl()'s loop condition "while tasks", after tasks = list(pending)
CrawlLoopEnds(pending) == pending = {}

\* crawl()'s asyncio.wait returned: finished site tasks are removed; with the
\* global cap reached the pending ones are cancelled and crawl() returns, as
\* it does when no site task is left.
CrawlWake ==
    /\ UNCHANGED noncrawl
    /\ crawl_pc = "running"
    /\ \E d \in Domains : site_pc[d] = "done"
    /\ LET pending == {d \in Domains : site_pc[d] \in {"new", "wait"}}
       IN IF GlobalCapReached
          THEN /\ site_pc' = [d \in Domains |->
                                IF site_pc[d] = "done" THEN "joined"
                                ELSE IF d \in pending THEN "cancelled"
                                ELSE site_pc[d]]
               /\ crawl_pc' = "returned"
          ELSE /\ site_pc' = [d \in Domains |->
                                IF site_pc[d] = "done" THEN "joined" ELSE site_pc[d]]
               /\ crawl_pc' = IF CrawlLoopEnds(pending) THEN "returned" ELSE "running"
    /\ UNCHANGED <<pass, site_configs, url_queues, visited_urls, task,
                   saved_articles_count, total_articles, error_urls, error_count, url_cache,
                   cache_old, cache_file, files, faults, commits, dispatched,
                   files_first>>

\* asyncio.run ends the loop: every task still alive is cancelled.
ProcessExit ==
    /\ UNCHANGED noncrawl
    /\ crawl_pc = "returned"
    /\ crawl_pc' = "exited"
    /\ task' = [d \in Domains |-> [u \in Urls |->
                   IF task[d][u] \in {"created", "inflight"} THEN "cancelled"
                   ELSE task[d][u]]]
    /\ UNCHANGED <<pass, site_configs, site_pc, url_queues, visited_urls,
                   saved_articles_count, total_articles, error_urls, error_count, url_cache,
                   cache_old, cache_file, files, faults, commits, dispatched,
                   files_first>>

Next ==
    \/ CrawlStart
    \/ \E d \in Domains : SiteStart(d)
    \/ \E d \in Domains : SiteWake(d)
    \/ \E d \in Domains, u \in Urls : TaskStart(d, u)
    \/ \E d \in Domains, u \in Urls : FetchOk(d, u)
    \/ \E d \in Domains, u \in Urls : FetchError(d, u)
    \/ CrawlWake
    \/ ProcessExit

Spec == Init /\ [][Next]_vars

(***************************************************************************)
(* The crawl with its scheduling: the event loop runs a callback that is   *)
(* ready, and a fetch in flight returns (Downloader.get bounds its         *)
(* attempts and each attempt has a timeout), so the program does not stop  *)
(* while a step is possible.                                               *)
(***************************************************************************)
Fairness == WF_vars(Next)

SpecFair == Spec /\ Fairness

(***************************************************************************)
(* Two passes: the process is run again after it exited.  The files and    *)
(* url_cache.json stay; everything in memory is built anew.                *)
(***************************************************************************)
InitTwoPass ==
    /\ pass = "first"
    /\ cache_file \in InitialCacheFiles
    /\ files = [p \in Paths |-> NoUrl]
    /\ files_first = [p \in Paths |-> NoUrl]
    /\ \E d \in Domains : Constructed({d}, cache_file)
    /\ ExIdle
    /\ DlIdle
    /\ RbIdle
    /\ LkIdle
    /\ DtIdle
    /\ PpIdle

\* The second run's MultiSiteCrawler.__init__.  Its cleanup removes only
\* directories that are no dates or are older than the retention period, and
\* there are none.
Restart ==
    /\ UNCHANGED noncrawl
    /\ pass = "first"
    /\ crawl_pc = "exited"
    /\ pass' = "second"
    /\ files_first' = files
    /\ crawl_pc' = "init"
    /\ site_pc' = [d \in Domains |-> "none"]
    /\ url_queues' = [d \in Domains |->
                        IF d \in site_configs THEN <<StartUrl[d]>> ELSE <<>>]
    /\ visited_urls' = [d \in Domains |-> {}]
    /\ task' = [d \in Domains |-> [u \in Urls |-> "none"]]
    /\ saved_articles_count' = [d \in Domains |-> 0]
    /\ total_articles' = 0
    /\ error_urls' = [d \in Domains |-> {}]
    /\ error_count' = [d \in Domains |-> 0]
    /\ url_cache' = LoadedCache(cache_file)
    /\ cache_old' = LoadedOld(cache_file)
    /\ faults' = 0
    /\ commits' = [u \in Urls |-> 0]
    /\ dispatched' = [d \in Domains |-> [u \in Urls |-> 0]]
    /\ UNCHANGED <<site_configs, cache_file, files>>

NextTwoPass == Next \/ Restart

SpecTwoPass == InitTwoPass /\ [][NextTwoPass]_vars

(***************************************************************************)
(* Extraction on its own: _process_article is handed one page, which may   *)
(* lack any of its fields, on a freshly constructed crawler.  Each action  *)
(* is the return of one of the nested calls.                               *)
(***************************************************************************)
RawTitles == {<<>>, <<"A">>, <<"B">>}

RawAges == {NoDate, Today, RetentionDays + 1}

RawBodyLens == {0, MinSummaryLen - 1, MinSummaryLen, MinSummaryLen + 30}

RawPages ==
    {Page({D1, D2}, {D1, D2}, TRUE, <<>>, t, a, b) :
        t \in RawTitles, a \in RawAges, b \in RawBodyLens}

ExUrls == {"x", "z"}

InitExtract ==
    /\ pass = "first"
    /\ cache_file \in InitialCacheFiles
    /\ files = [p \in Paths |-> NoUrl]
    /\ files_first = [p \in Paths |-> NoUrl]
    /\ Constructed(Domains, cache_file)
    /\ ex_url \in ExUrls
    /\ ex_page \in RawPages
    /\ ex_stage = "page"
    /\ ex_article = NoArticle
    /\ DlIdle
    /\ RbIdle
    /\ LkIdle
    /\ DtIdle
    /\ PpIdle

\* Article.from_html returns (parse_article found the URL not cached)
ExFromHtml ==
    /\ ex_stage = "page"
    /\ ~is_cached(ex_url, process_config(ex_url, ex_url))
    /\ ex_article' = from_html(ex_url, ex_page)
    /\ ex_stage' = "from_html"
    /\ UNCHANGED <<nonex, ex_url, ex_page>>

\* ArticleParser.parse_article returns
ExParser ==
    /\ ex_stage = "from_html"
    /\ ex_article' = ParserCheck(ex_article)
    /\ ex_stage' = "parser"
    /\ UNCHANGED <<nonex, ex_url, ex_page>>

\* MultiSiteCrawler.parse_article returns: at once for a cached URL, else
\* after its checks on the parser's result
ExParseArticle ==
    LET config == process_config(ex_url, ex_url)
    IN /\ \/ /\ ex_stage = "page"
             /\ is_cached(ex_url, config)
             /\ ex_article' = NoArticle
          \/ /\ ex_stage = "parser"
             /\ ex_article' = StoreChecks(ex_article, config)
       /\ ex_stage' = "parse_article"
       /\ UNCHANGED <<nonex, ex_url, ex_page>>

\* _process_article returns: save_article was called for an article
ExSave ==
    /\ ex_stage = "parse_article"
    /\ ex_stage' = IF ex_article = NoArticle THEN "skipped" ELSE "saved"
    /\ ProcessArticle(ex_url, ex_url, ex_page)
    /\ UNCHANGED <<pass, site_configs, crawl_pc, site_pc, url_queues, visited_urls,
                   task, error_urls, error_count, cache_old, dispatched, files_first>>
    /\ UNCHANGED <<dlvars, rbvars, lkvars, dtvars, ppvars, ex_url, ex_page, ex_article>>

NextExtract == ExFromHtml \/ ExParser \/ ExParseArticle \/ ExSave

SpecExtract == InitExtract /\ [][NextExtract]_vars

(***************************************************************************)
(* Downloader.get.  Several calls run on the one Downloader and take turns *)
(* at their awaits: the initial delay, aclose inside close, the request,   *)
(* the backoff sleep.  AsyncClient.aclose marks the client closed before   *)
(* it waits.                                                               *)
(***************************************************************************)
_validate_url_any(kind) == TRUE

_validate_url(kind) == kind \notin {"no_scheme", "no_host"}

_get_ip_from_domain(kind) == kind # "no_dns"

\* the request's ways to end: a 2xx response, raise_for_status on another
\* status, and the exceptions get tells apart
Outcomes == {"2xx", "status", "timeout", "transport", "protocol", "connect", "other"}

\* the except branches of get
Classify(o) == IF o = "other" THEN "DownloaderError" ELSE "NetworkError"

\* what the history keeps of an attempt: the response, or the error's class
Ended(o) == IF o = "2xx" THEN o ELSE Classify(o)

\* close(): the branch that awaits aclose and then forgets the session
CloseAwaits(session, closed) == session # 0 /\ session \notin closed

LoopTopClosesNever(session) == FALSE

\* "if self.session" at the top of an attempt
LoopTopCloses(session) == session # 0

\* get_session: a new client unless the current one is there and open
get_session(session, closed, made) ==
    IF session = 0 \/ session \in closed THEN made + 1 ELSE session

BackoffAlways(attempt) == TRUE

\* "if attempt < self.retry_times - 1", attempt counted from 0
Backoff(attempt) == attempt < RetryTimes - 1

\* the statements after the last attempt
AfterLoop(c, last) ==
    /\ dl_pc' = [dl_pc EXCEPT ![c] = IF last # NoError THEN "raised" ELSE "returned"]
    /\ dl_result' = [dl_result EXCEPT ![c] =
            IF last # NoError THEN [value |-> "raise", error |-> last]
            ELSE [value |-> "None", error |-> NoError]]

\* get up to its first await: the two checks, each raising NetworkError
DlCall(c) ==
    /\ dl_pc[c] = "new"
    /\ IF ~_validate_url(dl_url[c])
         THEN /\ dl_pc' = [dl_pc EXCEPT ![c] = "raised"]
              /\ dl_result' = [dl_result EXCEPT ![c] = [value |-> "raise", error |->
                     [class |-> "NetworkError", kind |-> "invalid_url", attempt |-> 0]]]
         ELSE IF ~_get_ip_from_domain(dl_url[c])
         THEN /\ dl_pc' = [dl_pc EXCEPT ![c] = "raised"]
              /\ dl_result' = [dl_result EXCEPT ![c] = [value |-> "raise", error |->
                     [class |-> "NetworkError", kind |-> "dns", attempt |-> 0]]]
         ELSE /\ dl_pc' = [dl_pc EXCEPT ![c] = "delay"]
              /\ UNCHANGED dl_result
    /\ UNCHANGED <<dl_session, dl_closed, dl_made, dl_carried, dl_url, dl_local,
                   dl_outcomes, dl_sleeps, dl_last>>
    /\ UNCHANGED nondl

\* get_session and session.get up to its await, self.session being session
SendRequest(c, session, closed) ==
    LET s == get_session(session, closed, dl_made)
    IN /\ dl_session' = s
       /\ dl_made' = IF s = dl_made + 1 THEN s ELSE dl_made
       /\ dl_local' = [dl_local EXCEPT ![c] = s]
       /\ dl_carried' = [dl_carried EXCEPT ![s] = @ \cup {<<c, Len(dl_outcomes[c]) + 1>>}]
       /\ dl_pc' = [dl_pc EXCEPT ![c] = "request"]

\* a sleep ends and the loop goes on: no attempt left, or the next attempt
\* up to its first await
DlAttempt(c) ==
    /\ dl_pc[c] \in {"delay", "backoff"}
    /\ IF Len(dl_outcomes[c]) >= RetryTimes
         THEN /\ AfterLoop(c, dl_last[c])
              /\ UNCHANGED <<dl_session, dl_closed, dl_made, dl_carried, dl_local>>
         ELSE IF LoopTopCloses(dl_session) /\ CloseAwaits(dl_session, dl_closed)
         THEN /\ dl_closed' = dl_closed \cup {dl_session}
              /\ dl_pc' = [dl_pc EXCEPT ![c] = "closing"]
              /\ UNCHANGED <<dl_session, dl_made, dl_carried, dl_local, dl_result>>
         ELSE /\ SendRequest(c, dl_session, dl_closed)
              /\ UNCHANGED <<dl_closed, dl_result>>
    /\ UNCHANGED <<dl_url, dl_outcomes, dl_sleeps, dl_last>>
    /\ UNCHANGED nondl

\* aclose at the top of an attempt returns: self.session = None, then the
\* request
DlClosed(c) ==
    /\ dl_pc[c] = "closing"
    /\ SendRequest(c, 0, dl_closed)
    /\ UNCHANGED <<dl_closed, dl_url, dl_outcomes, dl_sleeps, dl_last, dl_result>>
    /\ UNCHANGED nondl

\* the statements after the finally block of an attempt, the n-th, that
\* ended as said: the return, the backoff sleep, or the end of the loop
AfterFinally(c, ended, n, last) ==
    IF ended = "2xx"
    THEN /\ dl_pc' = [dl_pc EXCEPT ![c] = "returned"]
         /\ dl_result' = [dl_result EXCEPT ![c] = [value |-> "response", error |-> NoError]]
         /\ UNCHANGED dl_sleeps
    ELSE IF Backoff(n - 1)
    THEN /\ dl_pc' = [dl_pc EXCEPT ![c] = "backoff"]
         /\ dl_sleeps' = [dl_sleeps EXCEPT ![c] = @ + 1]
         /\ UNCHANGED dl_result
    ELSE /\ AfterLoop(c, last)
         /\ UNCHANGED dl_sleeps

\* session.get ends as o; the except branch sets last_error; the finally
\* block calls close, which returns at once or awaits aclose
DlResponse(c) ==
    /\ dl_pc[c] = "request"
    /\ \E o \in Outcomes :
         LET n == Len(dl_outcomes[c]) + 1
             last == IF o = "2xx" THEN dl_last[c]
                     ELSE [class |-> Classify(o), kind |-> o, attempt |-> n]
         IN /\ dl_outcomes' = [dl_outcomes EXCEPT ![c] = Append(@, Ended(o))]
            /\ dl_last' = [dl_last EXCEPT ![c] = last]
            /\ IF CloseAwaits(dl_session, dl_closed)
                 THEN /\ dl_closed' = dl_closed \cup {dl_session}
                      /\ dl_pc' = [dl_pc EXCEPT ![c] = "finally"]
                      /\ UNCHANGED <<dl_sleeps, dl_result>>
                 ELSE /\ AfterFinally(c, Ended(o), n, last)
                      /\ UNCHANGED dl_closed
    /\ UNCHANGED <<dl_session, dl_made, dl_carried, dl_url, dl_local>>
    /\ UNCHANGED nondl

\* aclose in the finally block returns: self.session = None, then the
\* statements after the block
DlFinallyDone(c) ==
    /\ dl_pc[c] = "finally"
    /\ dl_session' = 0
    /\ AfterFinally(c, dl_outcomes[c][Len(dl_outcomes[c])], Len(dl_outcomes[c]), dl_last[c])
    /\ UNCHANGED <<dl_closed, dl_made, dl_carried, dl_url, dl_local, dl_outcomes, dl_last>>
    /\ UNCHANGED nondl

\* any Downloader with any calls on it
InitDownloader ==
    /\ pass = "first"
    /\ cache_file = NoFile
    /\ files = [p \in Paths |-> NoUrl]
    /\ files_first = [p \in Paths |-> NoUrl]
    /\ Constructed(Domains, cache_file)
    /\ ExIdle
    /\ DlConstructed
    /\ dl_url \in [Calls -> UrlKinds]
    /\ RbIdle
    /\ LkIdle
    /\ DtIdle
    /\ PpIdle

NextDownloader ==
    \/ \E c \in Calls : DlCall(c)
    \/ \E c \in Calls : DlAttempt(c)
    \/ \E c \in Calls : DlClosed(c)
    \/ \E c \in Calls : DlResponse(c)
    \/ \E c \in Calls : DlFinallyDone(c)

SpecDownloader == InitDownloader /\ [][NextDownloader]_vars

(***************************************************************************)
(* RobotsParser.  A run constructs the parser (loading the failure         *)
(* records), fetches robots.txt of the domains not known as failed, all    *)
(* fetches gathered, saves the failure records, and answers                *)
(* is_url_allowed.  The clock is in days: a run takes seconds (the client  *)
(* timeout is 5 s), so the day changes between runs.                       *)
(***************************************************************************)
\* _load_failed_domains: the entries of the file younger than cache_ttl
_load_failed_domains(file, now) ==
    {d \in DOMAIN file : now - file[d] < CacheTtl}

\* _save_failed_domains: every failed domain with the time of the save
_save_failed_domains(failed, now) == [d \in failed |-> now]

\* RobotFileParser.parse: the Disallow paths by group
Parse(text) ==
    [star |-> {text[i].path : i \in {j \in 1 .. Len(text) : text[j].agent = "*"}},
     named |-> {text[i].path : i \in {j \in 1 .. Len(text) : text[j].agent # "*"}}]

can_fetch_any_group(rules, agent, u) == u \notin rules.star \cup rules.named

\* RobotFileParser.can_fetch: a named group applies to the agents it names,
\* the group of * to every other agent
can_fetch(rules, agent, u) ==
    IF agent = "*" THEN u \notin rules.star ELSE u \notin rules.named

is_url_allowed(u, d) ==
    IF d \in rb_failed THEN TRUE
    ELSE IF d \notin DOMAIN rb_rules THEN TRUE
    ELSE can_fetch(rb_rules[d], "*", u)

\* RobotsParser.__init__
RbConstruct ==
    /\ rb_pc = "off"
    /\ rb_pc' = "constructed"
    /\ rb_failed' = _load_failed_domains(rb_file, rb_now)
    /\ rb_rules' = [d \in {} |-> NoText]
    /\ rb_task' = [d \in Domains |-> "none"]
    /\ rb_fetched' = [d \in Domains |-> NoResponse]
    /\ UNCHANGED <<rb_now, rb_file, rb_failed_at, rb_parsed>>
    /\ UNCHANGED nonrb

\* init_robots_rules up to gather; with no task it goes on to the save
RbInitStart ==
    /\ rb_pc = "constructed"
    /\ LET todo == Domains \ rb_failed
       IN /\ rb_task' = [d \in Domains |-> IF d \in todo THEN "pending" ELSE "none"]
          /\ IF todo = {}
              THEN /\ rb_file' = _save_failed_domains(rb_failed, rb_now)
                   /\ rb_pc' = "ready"
              ELSE /\ rb_pc' = "gather"
                   /\ UNCHANGED rb_file
    /\ UNCHANGED <<rb_now, rb_failed, rb_rules, rb_fetched, rb_failed_at, rb_parsed>>
    /\ UNCHANGED nonrb

\* _fetch_robots from the response on
RbFetched(d) ==
    /\ rb_pc = "gather"
    /\ rb_task[d] = "pending"
    /\ \E r \in Responses :
         /\ rb_fetched' = [rb_fetched EXCEPT ![d] = r]
         /\ IF r.status = "200"
             THEN /\ rb_rules' = [e \in DOMAIN rb_rules \cup {d} |->
                                     IF e = d THEN Parse(r.text) ELSE rb_rules[e]]
                  /\ rb_parsed' = [rb_parsed EXCEPT ![d] = [at |-> rb_now, text |-> r.text]]
                  /\ UNCHANGED <<rb_failed, rb_failed_at>>
             ELSE /\ rb_failed' = rb_failed \cup {d}
                  /\ rb_failed_at' = [rb_failed_at EXCEPT ![d] = rb_now]
                  /\ UNCHANGED <<rb_rules, rb_parsed>>
    /\ rb_task' = [rb_task EXCEPT ![d] = "done"]
    /\ UNCHANGED <<rb_now, rb_file, rb_pc>>
    /\ UNCHANGED nonrb

\* gather returns; _save_failed_domains
RbGathered ==
    /\ rb_pc = "gather"
    /\ \A d \in Domains : rb_task[d] # "pending"
    /\ rb_file' = _save_failed_domains(rb_failed, rb_now)
    /\ rb_pc' = "ready"
    /\ UNCHANGED <<rb_now, rb_failed, rb_rules, rb_task, rb_fetched, rb_failed_at,
                   rb_parsed>>
    /\ UNCHANGED nonrb

\* the process ends
RbExit ==
    /\ rb_pc = "ready"
    /\ rb_pc' = "off"
    /\ UNCHANGED <<rb_now, rb_file, rb_failed, rb_rules, rb_task, rb_fetched, rb_failed_at,
                   rb_parsed>>
    /\ UNCHANGED nonrb

\* a day passes between two runs
RbTick ==
    /\ rb_pc = "off"
    /\ rb_now < MaxDay
    /\ rb_now' = rb_now + 1
    /\ UNCHANGED <<rb_file, rb_pc, rb_failed, rb_rules, rb_task, rb_fetched, rb_failed_at,
                   rb_parsed>>
    /\ UNCHANGED nonrb

InitRobots ==
    /\ pass = "first"
    /\ cache_file = NoFile
    /\ files = [p \in Paths |-> NoUrl]
    /\ files_first = [p \in Paths |-> NoUrl]
    /\ Constructed(Domains, cache_file)
    /\ ExIdle
    /\ DlIdle
    /\ RbIdle
    /\ LkIdle
    /\ DtIdle
    /\ PpIdle

NextRobots ==
    \/ RbConstruct
    \/ RbInitStart
    \/ \E d \in Domains : RbFetched(d)
    \/ RbGathered
    \/ RbExit
    \/ RbTick

SpecRobots == InitRobots /\ [][NextRobots]_vars

(***************************************************************************)
(* Link filtering on its own: a link found on a fetched page of a site     *)
(* goes through _extract_links, and what _extract_links returns goes       *)
(* through crawl_site: extend of the frontier, popleft, create_task.       *)
(***************************************************************************)
\* the date check at the end of is_valid_url: datetime(year, month, day)
\* raises for a date that is none, and the except branch returns False
DateAccepted(date) ==
    IF date = NoDate THEN TRUE
    ELSE IF date = BadDate THEN FALSE
    ELSE ~(date > FreshDays)

\* the checks every site but 10jqka.com.cn ends with
CommonChecks(l) == l.scheme /\ ~l.media /\ DateAccepted(l.date)

\* MultiSiteCrawler.is_valid_url, all of it
IsValidUrl(l, site) ==
    IF ~l.robots THEN FALSE
    ELSE IF site = "10jqka" THEN l.host = "listed" /\ l.shape
    ELSE IF site = "caijing" THEN l.host = "listed" /\ CommonChecks(l)
    ELSE IF site = "caixin" THEN l.host = "listed" /\ l.excl # "query" /\ CommonChecks(l)
    ELSE IF site = "thepaper"
         THEN /\ l.host = "listed"
              /\ l.mark \in {"detail", "channel"}
              /\ CommonChecks(l)
    ELSE l.host \in {"listed", "sub"} /\ CommonChecks(l)

\* MultiSiteCrawler._extract_links
_extract_links(found, site) ==
    SelectSeq(found, LAMBDA l : ~l.anchor /\ IsValidUrl(l, site))

\* fetch_url has the page; _extract_links returns
LkExtract ==
    /\ lk_pc = "page"
    /\ lk_links' = _extract_links(<<lk_link>>, lk_site)
    /\ lk_pc' = "extracted"
    /\ UNCHANGED <<lk_site, lk_link, lk_queue, lk_fetched>>
    /\ UNCHANGED nonlk

\* crawl_site: self.url_queues[domain].extend(links)
LkExtend ==
    /\ lk_pc = "extracted"
    /\ lk_queue' = lk_queue \o lk_links
    /\ lk_pc' = "extended"
    /\ UNCHANGED <<lk_site, lk_link, lk_links, lk_fetched>>
    /\ UNCHANGED nonlk

\* crawl_site: popleft and create_task(fetch_url)
LkDispatch ==
    /\ lk_pc = "extended"
    /\ lk_queue # <<>>
    /\ lk_fetched' = lk_fetched \cup {Head(lk_queue)}
    /\ lk_queue' = Tail(lk_queue)
    /\ lk_pc' = "dispatched"
    /\ UNCHANGED <<lk_site, lk_link, lk_links>>
    /\ UNCHANGED nonlk

\* any site, any link on a page of it
InitLinks ==
    /\ pass = "first"
    /\ cache_file = NoFile
    /\ files = [p \in Paths |-> NoUrl]
    /\ files_first = [p \in Paths |-> NoUrl]
    /\ Constructed(Domains, cache_file)
    /\ ExIdle
    /\ DlIdle
    /\ RbIdle
    /\ lk_site \in Sites
    /\ lk_link \in Links
    /\ lk_pc = "page"
    /\ lk_links = <<>>
    /\ lk_queue = <<>>
    /\ lk_fetched = {}
    /\ DtIdle
    /\ PpIdle

NextLinks == LkExtract \/ LkExtend \/ LkDispatch

SpecLinks == InitLinks /\ [][NextLinks]_vars

(***************************************************************************)
(* ArticleExtractor.extract_publish_date on its own.                       *)
(***************************************************************************)
\* DateExtractor.extract_date on the text of a source
Normalized(kind, date) == IF kind = "date" THEN date ELSE NoResult

\* step 5: _extract_date_from_url; datetime() raises for a bad date and the
\* assert fails without a date, and the except branch returns None
FromUrl(page) == IF page.url = "date" THEN UrlDate ELSE NoResult

\* step 4: the text of the profile's date_selectors, when there is one, is
\* what extract_date makes of it
FromDateSelectors(page) ==
    IF page.config = "date_selectors" /\ page.profile # "absent"
    THEN Normalized(page.profile, ProfileDate)
    ELSE FromUrl(page)

\* step 3: the profile's selectors dictionary; with a date_format the text
\* goes to strptime, which raises unless the text has that format
FromSelectors(page) ==
    IF page.config \in {"selectors", "selectors_format"}
    THEN IF Normalized(page.profile, ProfileDate) # NoResult THEN ProfileDate
         ELSE IF page.config = "selectors_format"
         THEN (IF page.profile = "format" THEN ProfileDate ELSE NoResult)
         ELSE FromDateSelectors(page)
    ELSE FromDateSelectors(page)

\* ArticleExtractor.extract_publish_date
extract_publish_date(page) ==
    IF Normalized(page.body, BodyDate) # NoResult THEN BodyDate
    ELSE IF Normalized(page.meta, MetaDate) # NoResult THEN MetaDate
    ELSE FromSelectors(page)

PdExtract ==
    /\ pd_pc = "page"
    /\ pd_result' = extract_publish_date(pd_page)
    /\ pd_pc' = "done"
    /\ UNCHANGED <<pd_page, devars, clvars>>
    /\ UNCHANGED nondt

\* any page
InitPublishDate ==
    /\ pass = "first"
    /\ cache_file = NoFile
    /\ files = [p \in Paths |-> NoUrl]
    /\ files_first = [p \in Paths |-> NoUrl]
    /\ Constructed(Domains, cache_file)
    /\ ExIdle
    /\ DlIdle
    /\ RbIdle
    /\ LkIdle
    /\ pd_page \in DatePages
    /\ pd_pc = "page"
    /\ pd_result = NoResult
    /\ DeIdle
    /\ ClIdle
    /\ PpIdle

NextPublishDate == PdExtract

SpecPublishDate == InitPublishDate /\ [][NextPublishDate]_vars

(***************************************************************************)
(* DateExtractor.extract_date on its own (common/date_extractor.py).  A    *)
(* text is the sequence of its characters; a Chinese character is written  *)
(* by its pinyin ("nian" is the character for year).  The regular          *)
(* expressions are matched as the re module matches them: leftmost, each   *)
(* repetition greedy, backtracking to shorter repetitions.                 *)
(***************************************************************************)
DigitChars == <<"0", "1", "2", "3", "4", "5", "6", "7", "8", "9">>

Digit == {DigitChars[i] : i \in 1 .. Len(DigitChars)}

UpperChars == <<"A", "B", "C", "D", "E", "F", "G", "H", "I", "J", "K", "L", "M",
                "N", "O", "P", "Q", "R", "S", "T", "U", "V", "W", "X", "Y", "Z">>

LowerChars == <<"a", "b", "c", "d", "e", "f", "g", "h", "i", "j", "k", "l", "m",
                "n", "o", "p", "q", "r", "s", "t", "u", "v", "w", "x", "y", "z">>

\* [A-Za-z]
Alpha == {UpperChars[i] : i \in 1 .. Len(UpperChars)} \cup
         {LowerChars[i] : i \in 1 .. Len(LowerChars)}

\* \s, after the whitespace of the text was normalised
Space == {" "}

\* str.lower and str.upper on one character
lower(c) ==
    IF \E i \in 1 .. Len(UpperChars) : UpperChars[i] = c
    THEN LowerChars[CHOOSE i \in 1 .. Len(UpperChars) : UpperChars[i] = c]
    ELSE c

upper(c) ==
    IF \E i \in 1 .. Len(LowerChars) : LowerChars[i] = c
    THEN UpperChars[CHOOSE i \in 1 .. Len(LowerChars) : LowerChars[i] = c]
    ELSE c

\* str.title on one word of letters
title(word) == [i \in 1 .. Len(word) |-> IF i = 1 THEN upper(word[i]) ELSE lower(word[i])]

\* int() on a string of digits
RECURSIVE int(_)
int(digits) ==
    IF digits = <<>> THEN 0
    ELSE 10 * int(SubSeq(digits, 1, Len(digits) - 1)) +
         (CHOOSE i \in 0 .. 9 : DigitChars[i + 1] = digits[Len(digits)])

\* ' '.join(text.split()): no whitespace at either end, one space between words
RECURSIVE JoinSplit(_, _)
JoinSplit(text, at_gap) ==
    IF text = <<>> THEN <<>>
    ELSE IF Head(text) \in Space
    THEN JoinSplit(Tail(text), TRUE)
    ELSE (IF at_gap THEN <<" ">> ELSE <<>>) \o <<Head(text)>> \o JoinSplit(Tail(text), FALSE)

Cleaned(text) ==
    LET joined == JoinSplit(text, FALSE)
    IN  IF joined # <<>> /\ Head(joined) \in Space THEN Tail(joined) ELSE joined

\* one element of a regular expression: between least and most characters
\* of a class (any number from least on when not bounded), captured or not
Rep(cls, least, most, cap) ==
    [cls |-> cls, least |-> least, bounded |-> TRUE, most |-> most, cap |-> cap]

AtLeast(cls, least, cap) ==
    [cls |-> cls, least |-> least, bounded |-> FALSE, most |-> 0, cap |-> cap]

Lit(c) == Rep({c}, 1, 1, FALSE)

\* the characters of the class that follow each other from a position on
RECURSIVE Run(_, _, _)
Run(cls, text, pos) ==
    IF pos > Len(text) \/ text[pos] \notin cls THEN 0 ELSE 1 + Run(cls, text, pos + 1)

\* the match of a pattern from its k-th element on at a position: <<>> when
\* there is none, else the one-element sequence of the captured groups
RECURSIVE MatchFrom(_, _, _, _), MatchTaking(_, _, _, _, _)
MatchFrom(pattern, k, text, pos) ==
    IF k > Len(pattern) THEN << <<>> >>
    ELSE LET e == pattern[k]
             run == Run(e.cls, text, pos)
         IN  MatchTaking(pattern, k, text, pos,
                         IF e.bounded /\ e.most < run THEN e.most ELSE run)

MatchTaking(pattern, k, text, pos, n) ==
    IF n < pattern[k].least THEN <<>>
    ELSE LET rest == MatchFrom(pattern, k + 1, text, pos + n)
         IN  IF rest # <<>>
             THEN << (IF pattern[k].cap THEN <<SubSeq(text, pos, pos + n - 1)>> ELSE <<>>)
                     \o rest[1] >>
             ELSE MatchTaking(pattern, k, text, pos, n - 1)

\* pattern.search(text): <<>> or the groups of the leftmost match
RECURSIVE SearchFrom(_, _, _)
SearchFrom(pattern, text, pos) ==
    IF pos > Len(text) + 1 THEN <<>>
    ELSE LET m == MatchFrom(pattern, 1, text, pos)
         IN  IF m # <<>> THEN m ELSE SearchFrom(pattern, text, pos + 1)

search(pattern, text) == SearchFrom(pattern, text, 1)

\* text as a sequence of characters, for the words the code names
PublishedOn == <<"P", "u", "b", "l", "i", "s", "h", "e", "d", " ", "o", "n">>

PostedOn == <<"P", "o", "s", "t", "e", "d", " ", "o", "n">>

DateColon == <<"D", "a", "t", "e", ":">>

\* the alternatives of the prefix expression, in its order
Prefixes == << <<"fa", "bu", "yu">>, <<"fa", "biao", "yu">>, PublishedOn, PostedOn, DateColon >>

\* the text begins with the word, letter case ignored
StartsWith(text, word) ==
    /\ Len(text) >= Len(word)
    /\ \A i \in 1 .. Len(word) : lower(text[i]) = lower(word[i])

\* re.sub(r'^(...)\s*', '', text, flags=re.IGNORECASE)
StripPrefix(text) ==
    IF \E k \in 1 .. Len(Prefixes) : StartsWith(text, Prefixes[k])
    THEN LET k == CHOOSE k \in 1 .. Len(Prefixes) :
                      /\ StartsWith(text, Prefixes[k])
                      /\ \A j \in 1 .. k - 1 : ~StartsWith(text, Prefixes[j])
             n == Len(Prefixes[k])
         IN  SubSeq(text, n + Run(Space, text, n + 1) + 1, Len(text))
    ELSE text

\* MONTH_MAP: the month of a name is its place
MONTH_MAP == << <<"J", "a", "n">>, <<"F", "e", "b">>, <<"M", "a", "r">>, <<"A", "p", "r">>,
                <<"M", "a", "y">>, <<"J", "u", "n">>, <<"J", "u", "l">>, <<"A", "u", "g">>,
                <<"S", "e", "p">>, <<"O", "c", "t">>, <<"N", "o", "v">>, <<"D", "e", "c">> >>

\* the calendar of datetime
IsLeap(year) == year % 4 = 0 /\ (year % 100 # 0 \/ year % 400 = 0)

DaysIn(year, month) ==
    IF month = 2 THEN (IF IsLeap(year) THEN 29 ELSE 28)
    ELSE IF month \in {4, 6, 9, 11} THEN 30 ELSE 31

\* datetime(year, month, day) raises ValueError unless this holds
IsDate(year, month, day) ==
    /\ year \in 1 .. 9999
    /\ month \in 1 .. 12
    /\ day \in 1 .. DaysIn(year, month)

DayOf(now) == [year |-> now.year, month |-> now.month, day |-> now.day]

PrevDay(date) ==
    IF date.day > 1 THEN [date EXCEPT !.day = @ - 1]
    ELSE IF date.month > 1
    THEN [date EXCEPT !.month = @ - 1, !.day = DaysIn(date.year, date.month - 1)]
    ELSE [date EXCEPT !.year = @ - 1, !.month = 12, !.day = 31]

NextDay(date) ==
    IF date.day < DaysIn(date.year, date.month) THEN [date EXCEPT !.day = @ + 1]
    ELSE IF date.month < 12 THEN [date EXCEPT !.month = @ + 1, !.day = 1]
    ELSE [date EXCEPT !.year = @ + 1, !.month = 1, !.day = 1]

\* now - timedelta(days = n), at day granularity
RECURSIVE MinusDays(_, _)
MinusDays(date, n) == IF n = 0 THEN date ELSE MinusDays(PrevDay(date), n - 1)

\* now - timedelta(minutes = n), at day granularity
MinusMinutes(now, n) ==
    MinusDays(DayOf(now), IF n <= now.minute THEN 0 ELSE ((n - now.minute - 1) \div 1440) + 1)

\* the elements the patterns are made of
D(least, most) == Rep(Digit, least, most, TRUE)

Digits == AtLeast(Digit, 1, TRUE)

Word == AtLeast(Alpha, 1, TRUE)

Spaces == AtLeast(Space, 1, FALSE)

OptSpaces == AtLeast(Space, 0, FALSE)

OptComma == Rep({","}, 0, 1, FALSE)

\* RELATIVE_PATTERNS, in the order of the list
RELATIVE_PATTERNS ==
    << [pattern |-> <<Digits, OptSpaces, Lit("fen"), Lit("zhong"), Lit("qian")>>, unit |-> "minutes"],
       [pattern |-> <<Digits, OptSpaces, Lit("xiao"), Lit("shi"), Lit("qian")>>, unit |-> "hours"],
       [pattern |-> <<Digits, OptSpaces, Lit("tian"), Lit("qian")>>, unit |-> "days"],
       [pattern |-> <<Lit("zuo"), Lit("tian")>>, unit |-> "yesterday"],
       [pattern |-> <<Lit("qian"), Lit("tian")>>, unit |-> "before_yesterday"],
       [pattern |-> <<Lit("gang"), Lit("gang")>>, unit |-> "just_now"] >>

\* PATTERNS, in the order of the list
PATTERNS ==
    << <<D(4, 4), Lit("-"), D(2, 2), Lit("-"), D(2, 2)>>,
       <<D(4, 4), Lit("/"), D(2, 2), Lit("/"), D(2, 2)>>,
       <<D(4, 4), Lit("nian"), D(1, 2), Lit("yue"), D(1, 2), Lit("ri")>>,
       <<D(4, 4), Lit("."), D(1, 2), Lit("."), D(1, 2)>>,
       <<Word, Spaces, D(1, 2), OptComma, OptSpaces, D(4, 4)>>,
       <<D(1, 2), Spaces, Word, Spaces, D(4, 4)>>,
       <<Word, Spaces, D(1, 2)>>,
       <<D(1, 2), Spaces, Word>>,
       <<D(2, 2), Lit("-"), D(2, 2), Lit("-"), D(2, 2)>>,
       <<D(2, 2), Lit("/"), D(2, 2), Lit("/"), D(2, 2)>> >>

\* the time function of a relative pattern on its match
time_func(unit, groups, now) ==
    CASE unit = "minutes" -> MinusMinutes(now, int(groups[1]))
      [] unit = "hours" -> MinusMinutes(now, 60 * int(groups[1]))
      [] unit = "days" -> MinusDays(DayOf(now), int(groups[1]))
      [] unit = "yesterday" -> MinusDays(DayOf(now), 1)
      [] unit = "before_yesterday" -> MinusDays(DayOf(now), 2)
      [] unit = "just_now" -> DayOf(now)

\* step 1: the first relative pattern that is found gives the result
RECURSIVE RelativeFrom(_, _, _)
RelativeFrom(k, text, now) ==
    IF k > Len(RELATIVE_PATTERNS) THEN NoResult
    ELSE LET m == search(RELATIVE_PATTERNS[k].pattern, text)
         IN  IF m # <<>> THEN time_func(RELATIVE_PATTERNS[k].unit, m[1], now)
             ELSE RelativeFrom(k + 1, text, now)

\* parts[i][:3].title() looked up in MONTH_MAP: 0 when it is no month name
MonthOf(word) ==
    LET month_str == title(SubSeq(word, 1, IF Len(word) < 3 THEN Len(word) ELSE 3))
    IN  IF \E m \in 1 .. Len(MONTH_MAP) : MONTH_MAP[m] = month_str
        THEN CHOOSE m \in 1 .. Len(MONTH_MAP) : MONTH_MAP[m] = month_str
        ELSE 0

\* year, month and day as the groups of a match give them, the current year
\* for a match without a year; month 0 for a word that is no month name
Fields(parts, now) ==
    IF parts[1][1] \in Alpha
    THEN [month |-> MonthOf(parts[1]), day |-> int(parts[2]),
          year |-> IF Len(parts) > 2 THEN int(parts[3]) ELSE now.year, named |-> TRUE]
    ELSE IF parts[2][1] \in Alpha
    THEN [month |-> MonthOf(parts[2]), day |-> int(parts[1]),
          year |-> IF Len(parts) > 2 THEN int(parts[3]) ELSE now.year, named |-> TRUE]
    ELSE [year |-> int(parts[1]), month |-> int(parts[2]), day |-> int(parts[3]),
          named |-> FALSE]

\* the year is kept
FullYear(year) == year

\* a year below 100 is a year of this century
TwoDigitYear(year) == IF year < 100 THEN year + 2000 ELSE year

\* the body of the loop for one match: NoResult stands for continue
FromParts(parts, now) ==
    LET f == Fields(parts, now)
        year == TwoDigitYear(f.year)
    IN  IF f.named /\ f.month = 0 THEN NoResult
        ELSE IF ~(1 <= f.month /\ f.month <= 12 /\ 1 <= f.day /\ f.day <= 31) THEN NoResult
        ELSE IF ~IsDate(year, f.month, f.day) THEN NoResult
        ELSE [year |-> year, month |-> f.month, day |-> f.day]

\* step 2: the first pattern that is found and gives a date
RECURSIVE PatternFrom(_, _, _)
PatternFrom(k, text, now) ==
    IF k > Len(PATTERNS) THEN NoResult
    ELSE LET m == search(PATTERNS[k], text)
             date == IF m = <<>> THEN NoResult ELSE FromParts(m[1], now)
         IN  IF date # NoResult THEN date ELSE PatternFrom(k + 1, text, now)

\* DateExtractor.extract_date without its cache
extract_date(text, now) ==
    IF text = <<>> THEN NoResult
    ELSE LET cleaned == StripPrefix(Cleaned(text))
             relative == RelativeFrom(1, cleaned, now)
         IN  IF relative # NoResult THEN relative ELSE PatternFrom(1, cleaned, now)

\* str(n) and the two-digit form of strftime
RECURSIVE str(_)
str(n) == IF n < 10 THEN <<DigitChars[n + 1]>> ELSE str(n \div 10) \o <<DigitChars[(n % 10) + 1]>>

TwoDigits(n) == IF n < 10 THEN <<"0">> \o str(n) ELSE str(n)

\* what follows the first three letters in the full name of a month
MonthEndings == << <<"u", "a", "r", "y">>, <<"r", "u", "a", "r", "y">>, <<"c", "h">>,
                   <<"i", "l">>, <<>>, <<"e">>, <<"y">>, <<"u", "s", "t">>,
                   <<"t", "e", "m", "b", "e", "r">>, <<"o", "b", "e", "r">>,
                   <<"e", "m", "b", "e", "r">>, <<"e", "m", "b", "e", "r">> >>

\* a word that names no month
Foo == <<"F", "o", "o">>

Abbreviated(month) == IF month \in 1 .. 12 THEN MONTH_MAP[month] ELSE Foo

FullName(month) == IF month \in 1 .. 12 THEN MONTH_MAP[month] \o MonthEndings[month] ELSE Foo

\* the formats of the pattern table, by an example of each
NumericFormats == {"2024-03-22", "2024/03/22", "2024nian3yue22ri", "2024.3.22"}

ShortFormats == {"24-03-22", "24/03/22"}

YearlessFormats == {"Dec 7", "7 Dec"}

NamedFormats == {"Dec 7, 2024", "December 7, 2024", "7 Dec 2024", "7 December 2024"}

Formats == NumericFormats \cup ShortFormats \cup YearlessFormats \cup NamedFormats

\* the prefixes a text is written with
WrittenPrefixes == {"none", "fabuyu ", "Published on ", "Date: "}

\* dates of the calendar, and year, month and day that are none
GoodDates == {<<2024, 3, 22>>, <<2023, 12, 7>>}

BadDates == {<<2024, 13, 1>>, <<2024, 12, 32>>, <<2024, 2, 30>>}

\* texts that are no rendering of a date in one format
Literals == {"empty", "invalid date", "Foo 7", "7 Foo", "2024-13-01 7 Dec 2023",
             "32 Dec 2024", "3tianqian", "zuotian", "5fenzhongqian", "posted on  24/03/22",
             "2xiaoshiqian", "qiantian", "ganggang"}

\* everything extract_date is asked about
Inputs ==
    {[format |-> f, name |-> "date", year |-> d[1], month |-> d[2], day |-> d[3], prefix |-> p] :
        f \in Formats, d \in GoodDates, p \in WrittenPrefixes}
    \cup {[format |-> f, name |-> "date", year |-> d[1], month |-> d[2], day |-> d[3],
           prefix |-> "none"] : f \in Formats, d \in BadDates}
    \cup {Literal(name) : name \in Literals}

\* the characters of a date in a format
RenderDate(format, year, month, day) ==
    CASE format = "2024-03-22" ->
             str(year) \o <<"-">> \o TwoDigits(month) \o <<"-">> \o TwoDigits(day)
      [] format = "2024/03/22" ->
             str(year) \o <<"/">> \o TwoDigits(month) \o <<"/">> \o TwoDigits(day)
      [] format = "2024nian3yue22ri" ->
             str(year) \o <<"nian">> \o str(month) \o <<"yue">> \o str(day) \o <<"ri">>
      [] format = "2024.3.22" ->
             str(year) \o <<".">> \o str(month) \o <<".">> \o str(day)
      [] format = "24-03-22" ->
             TwoDigits(year % 100) \o <<"-">> \o TwoDigits(month) \o <<"-">> \o TwoDigits(day)
      [] format = "24/03/22" ->
             TwoDigits(year % 100) \o <<"/">> \o TwoDigits(month) \o <<"/">> \o TwoDigits(day)
      [] format = "Dec 7" -> Abbreviated(month) \o <<" ">> \o str(day)
      [] format = "7 Dec" -> str(day) \o <<" ">> \o Abbreviated(month)
      [] format = "Dec 7, 2024" ->
             Abbreviated(month) \o <<" ">> \o str(day) \o <<",", " ">> \o str(year)
      [] format = "December 7, 2024" ->
             FullName(month) \o <<" ">> \o str(day) \o <<",", " ">> \o str(year)
      [] format = "7 Dec 2024" ->
             str(day) \o <<" ">> \o Abbreviated(month) \o <<" ">> \o str(year)
      [] format = "7 December 2024" ->
             str(day) \o <<" ">> \o FullName(month) \o <<" ">> \o str(year)

RenderPrefix(prefix) ==
    CASE prefix = "none" -> <<>>
      [] prefix = "fabuyu " -> <<"fa", "bu", "yu", " ">>
      [] prefix = "Published on " -> PublishedOn \o <<" ">>
      [] prefix = "Date: " -> DateColon \o <<" ">>

RenderLiteral(name) ==
    CASE name = "empty" -> <<>>
      [] name = "invalid date" -> <<"i", "n", "v", "a", "l", "i", "d", " ", "d", "a", "t", "e">>
      [] name = "Foo 7" -> Foo \o <<" ", "7">>
      [] name = "7 Foo" -> <<"7", " ">> \o Foo
      [] name = "2024-13-01 7 Dec 2023" ->
             RenderDate("2024-03-22", 2024, 13, 1) \o <<" ">> \o
             RenderDate("7 Dec 2024", 2023, 12, 7)
      [] name = "32 Dec 2024" -> RenderDate("7 Dec 2024", 2024, 12, 32)
      [] name = "3tianqian" -> <<"3", "tian", "qian">>
      [] name = "zuotian" -> <<"zuo", "tian">>
      [] name = "5fenzhongqian" -> <<"5", "fen", "zhong", "qian">>
      [] name = "2xiaoshiqian" -> <<"2", "xiao", "shi", "qian">>
      [] name = "qiantian" -> <<"qian", "tian">>
      [] name = "ganggang" -> <<"gang", "gang">>
      [] name = "posted on  24/03/22" ->
             <<"p", "o", "s", "t", "e", "d", " ", "o", "n", " ", " ">> \o
             RenderDate("24/03/22", 2024, 3, 22)

\* the text of an input
Render(written) ==
    IF written.format = "literal" THEN RenderLiteral(written.name)
    ELSE RenderPrefix(written.prefix) \o
         RenderDate(written.format, written.year, written.month, written.day)

\* the days the clock advances while the process runs
MaxTicks == 2

\* the times at which the process starts
Nows == {[year |-> 2024, month |-> 12, day |-> 30, minute |-> 720],
         [year |-> 2025, month |-> 2, day |-> 28, minute |-> 0]}

\* lru_cache around extract_date: a text asked about before gets the result
\* it got then
cached_extract_date(cache, text, now) ==
    IF \E e \in cache : e.text = text
    THEN (CHOOSE e \in cache : e.text = text).result
    ELSE extract_date(text, now)

\* a call of DateExtractor.extract_date
DeCall ==
    /\ de_pc \in {"call", "call_again"}
    /\ de_result' = cached_extract_date(de_cache, de_text, de_now)
    /\ de_cache' = de_cache \cup {[text |-> de_text, result |-> de_result']}
    /\ de_pc' = IF de_pc = "call" THEN "returned" ELSE "returned_again"
    /\ UNCHANGED <<de_written, de_text, de_now, de_ticks, pdvars, clvars>>
    /\ UNCHANGED nondt

\* a day passes between two calls
DeTick ==
    /\ de_pc = "returned"
    /\ de_ticks < MaxTicks
    /\ de_ticks' = de_ticks + 1
    /\ de_now' = [year |-> NextDay(DayOf(de_now)).year, month |-> NextDay(DayOf(de_now)).month,
                  day |-> NextDay(DayOf(de_now)).day, minute |-> de_now.minute]
    /\ UNCHANGED <<de_written, de_text, de_cache, de_pc, de_result, pdvars, clvars>>
    /\ UNCHANGED nondt

\* the process comes to its second text
DeNextText ==
    /\ de_pc = "returned"
    /\ \E written \in Inputs :
          /\ de_written' = written
          /\ de_text' = Render(written)
    /\ de_pc' = "call_again"
    /\ UNCHANGED <<de_now, de_ticks, de_cache, de_result, pdvars, clvars>>
    /\ UNCHANGED nondt

\* a process that is about to extract the date of a text
InitDateText ==
    /\ pass = "first"
    /\ cache_file = NoFile
    /\ files = [p \in Paths |-> NoUrl]
    /\ files_first = [p \in Paths |-> NoUrl]
    /\ Constructed(Domains, cache_file)
    /\ ExIdle
    /\ DlIdle
    /\ RbIdle
    /\ LkIdle
    /\ PdIdle
    /\ ClIdle
    /\ de_written \in Inputs
    /\ de_text = Render(de_written)
    /\ de_now \in Nows
    /\ de_ticks = 0
    /\ de_cache = {}
    /\ de_pc = "call"
    /\ de_result = NoResult
    /\ PpIdle

NextDateText == DeCall \/ DeTick \/ DeNextText

SpecDateText == InitDateText /\ [][NextDateText]_vars

(***************************************************************************)
(* The paragraph loop of ArticleExtractor._clean_content on its own.  A    *)
(* line is kept by what the checks of the loop look at: its length after   *)
(* strip, its longest run of CJK characters, and whether it holds code     *)
(* marks, only digits and symbols, or sentence punctuation.                *)
(***************************************************************************)
\* content.split('\n') is cut to this many lines
MAX_LINES_DOWNLOADED == 150

\* the lines of a body, longest first in what they can be
MaxLines == 5

BlankLine == [len |-> 0, cjk |-> 0, code |-> FALSE, symbols |-> FALSE, punct |-> FALSE]

\* a sentence with CJK text
CjkLine == [len |-> 12, cjk |-> 2, code |-> FALSE, symbols |-> FALSE, punct |-> TRUE]

\* a sentence without CJK text
LatinLine == [len |-> 20, cjk |-> 0, code |-> FALSE, symbols |-> FALSE, punct |-> FALSE]

\* a line with a code mark such as ';'
CodeLine == [len |-> 20, cjk |-> 0, code |-> TRUE, symbols |-> FALSE, punct |-> FALSE]

\* a menu item: a few characters, one of them CJK
MenuLine == [len |-> 4, cjk |-> 1, code |-> FALSE, symbols |-> FALSE, punct |-> FALSE]

\* one character
CharLine == [len |-> 1, cjk |-> 0, code |-> FALSE, symbols |-> FALSE, punct |-> FALSE]

LineTexts == {BlankLine, CjkLine, LatinLine, CodeLine, MenuLine, CharLine}

Bodies == UNION {[1 .. n -> LineTexts] : n \in 1 .. MaxLines}

\* the checks between the blank-line count and the append: the line is skipped
Skipped_line(para, seen) ==
    \/ para.len < 2
    \/ para \in seen
    \/ para.code
    \/ para.len < 10 /\ para.cjk = 0
    \/ para.symbols
    \/ para.len <= 10 /\ ~para.punct /\ para.cjk < 2

\* the blank run ends the loop whether valid content was found or not
BreaksOnBlankAlways(found, blank) == blank >= 3

\* the blank run ends the loop only after valid content was found
BreaksOnBlank(found, blank) == found /\ blank >= 3

paragraphs == SubSeq(cl_lines, 1, IF Len(cl_lines) < MAX_LINES_DOWNLOADED
                                  THEN Len(cl_lines) ELSE MAX_LINES_DOWNLOADED)

\* one pass of the loop body
ClLine ==
    /\ cl_pc = "loop"
    /\ cl_next <= Len(paragraphs)
    /\ LET para == paragraphs[cl_next]
       IN  IF para.len = 0
           THEN /\ cl_blank' = cl_blank + 1
                /\ cl_pc' = IF BreaksOnBlank(cl_found, cl_blank') THEN "break" ELSE "loop"
                /\ UNCHANGED <<cl_found, cl_seen, cl_kept>>
           ELSE /\ cl_blank' = 0
                /\ cl_pc' = "loop"
                /\ IF Skipped_line(para, cl_seen)
                   THEN UNCHANGED <<cl_found, cl_seen, cl_kept>>
                   ELSE /\ cl_found' = (cl_found \/ para.cjk > 0)
                        /\ cl_seen' = cl_seen \cup {para}
                        /\ cl_kept' = Append(cl_kept, cl_next)
    /\ cl_next' = IF cl_pc' = "break" THEN cl_next ELSE cl_next + 1
    /\ UNCHANGED <<cl_lines, pdvars, devars>>
    /\ UNCHANGED nondt

\* the loop is over, by break or by the end of the lines: the kept lines
\* are joined
ClJoin ==
    /\ \/ cl_pc = "break"
       \/ cl_pc = "loop" /\ cl_next > Len(paragraphs)
    /\ cl_pc' = "joined"
    /\ UNCHANGED <<cl_lines, cl_next, cl_found, cl_blank, cl_seen, cl_kept, pdvars, devars>>
    /\ UNCHANGED nondt

\* any body
InitCleanContent ==
    /\ pass = "first"
    /\ cache_file = NoFile
    /\ files = [p \in Paths |-> NoUrl]
    /\ files_first = [p \in Paths |-> NoUrl]
    /\ Constructed(Domains, cache_file)
    /\ ExIdle
    /\ DlIdle
    /\ RbIdle
    /\ LkIdle
    /\ PdIdle
    /\ DeIdle
    /\ cl_lines \in Bodies
    /\ cl_next = 1
    /\ cl_found = FALSE
    /\ cl_blank = 0
    /\ cl_seen = {}
    /\ cl_kept = <<>>
    /\ cl_pc = "loop"
    /\ PpIdle

NextCleanContent == ClLine \/ ClJoin

SpecCleanContent == InitCleanContent /\ [][NextCleanContent]_vars

(***************************************************************************)
(* Startup (MultiSiteCrawler.__init__): RobotsParser and CacheManager are  *)
(* constructed in this order, each reading its file under try / except.   *)
(* A damaged file is one that exists and cannot be loaded.                 *)
(***************************************************************************)
\* open() fails ("unreadable"), json.load fails ("not_json"), the JSON is
\* no object and has no items() ("not_dict"), an entry's value is no list
\* of strings, or no timestamp ("bad_entry")
DamageKinds == {"unreadable", "not_json", "not_dict", "bad_entry"}

\* the exception each kind of damage raises inside the try block
Raises(kind) ==
    CASE kind = "unreadable" -> "PermissionError"
      [] kind = "not_json" -> "JSONDecodeError"
      [] kind = "not_dict" -> "AttributeError"
      [] kind = "bad_entry" -> "TypeError"
      [] OTHER -> "none"

\* "except json.JSONDecodeError" in place of "except Exception"
CatchesDecodeErrors(exc) == exc = "JSONDecodeError"

\* "except Exception": every class Raises names derives from Exception
Catches(exc) == TRUE

DamagedCacheFiles == [present : {TRUE}, damage : DamageKinds]

StartupCacheFiles == InitialCacheFiles \cup DamagedCacheFiles

\* what the try block of _load_cache raises
CacheLoadError(file) ==
    IF file \in DamagedCacheFiles THEN Raises(file.damage) ELSE "none"

EmptyCache == [d \in Domains |-> {}]

\* CacheManager._load_cache: the comprehension is assigned whole or not at
\* all; the handler resets url_cache
_load_cache(file) ==
    IF CacheLoadError(file) = "none"
        THEN [raised |-> FALSE, url_cache |-> LoadedCache(file)]
        ELSE [raised |-> ~Catches(CacheLoadError(file)), url_cache |-> EmptyCache]

\* the timestamps a robots_cache.json may hold on day MaxDay: one older
\* than cache_ttl, one younger
Stamps == {0, MaxDay - 1}

EntryFiles ==
    UNION {[S -> Stamps] : S \in SUBSET Domains}

\* a damaged robots_cache.json; of a file with a bad entry the model keeps
\* the entries written before it, which the loop reads first
DamagedRobotsFiles ==
    {f \in [damage : DamageKinds, before : EntryFiles] :
        f.damage # "bad_entry" => f.before = NoEntries}

StartupRobotsFiles == EntryFiles \cup DamagedRobotsFiles

RobotsLoadError(file) ==
    IF file \in DamagedRobotsFiles THEN Raises(file.damage) ELSE "none"

\* the entries the loop of _load_failed_domains reads before it ends
EntriesRead(file) ==
    IF file \in DamagedRobotsFiles THEN file.before ELSE file

\* RobotsParser.__init__: failed_domains keeps what the loop added before
\* an exception
RobotsParser_init ==
    /\ rb_pc = "off"
    /\ crawl_pc = "off"
    /\ rb_pc' = IF Catches(RobotsLoadError(rb_file)) THEN "constructed" ELSE "raised"
    /\ rb_failed' = _load_failed_domains(EntriesRead(rb_file), rb_now)
    /\ rb_rules' = [d \in {} |-> NoText]
    /\ rb_task' = [d \in Domains |-> "none"]
    /\ rb_fetched' = [d \in Domains |-> NoResponse]
    /\ UNCHANGED <<rb_now, rb_file, rb_failed_at, rb_parsed>>
    /\ UNCHANGED nonrb

\* CacheManager.__init__ and init_domain of every site; the rest of
\* MultiSiteCrawler.__init__ reads no file
CacheManager_init ==
    /\ rb_pc = "constructed"
    /\ crawl_pc = "off"
    /\ crawl_pc' = IF _load_cache(cache_file).raised THEN "raised" ELSE "init"
    /\ url_cache' = _load_cache(cache_file).url_cache
    /\ UNCHANGED <<pass, site_configs, site_pc, url_queues, visited_urls, task,
                   saved_articles_count, total_articles, error_urls, error_count,
                   cache_file, cache_old, files, files_first, faults, commits,
                   dispatched>>
    /\ UNCHANGED noncrawl

InitStartup ==
    /\ pass = "first"
    /\ cache_file \in StartupCacheFiles
    /\ files = [p \in Paths |-> NoUrl]
    /\ files_first = [p \in Paths |-> NoUrl]
    /\ crawl_pc = "off"
    /\ Fields_init(Domains, NoFile)
    /\ ExIdle
    /\ DlIdle
    /\ rb_now = MaxDay
    /\ rb_file \in StartupRobotsFiles
    /\ rb_pc = "off"
    /\ rb_failed = {}
    /\ rb_rules = [d \in {} |-> NoText]
    /\ rb_task = [d \in Domains |-> "none"]
    /\ rb_fetched = [d \in Domains |-> NoResponse]
    /\ rb_failed_at = [d \in Domains |-> NoStamp]
    /\ rb_parsed = [d \in Domains |-> [at |-> NoStamp, text |-> NoText]]
    /\ LkIdle
    /\ DtIdle
    /\ PpIdle

NextStartup == RobotsParser_init \/ CacheManager_init

SpecStartup == InitStartup /\ [][NextStartup]_vars

(***************************************************************************)
(* PaperCrawler.crawl: the loop over the start page, a pass being one call *)
(* of _crawl_page, and crawl_paper for each link the pass meets.           *)
(***************************************************************************)
\* PageCount.need_more
need_more(count) == count < MaxPages

\* how crawl_paper gets on with a paper that is not cached: the page is
\* fetched and parsed, the fetch fails, or date or title is missing
PaperOutcomes == {"ok", "fetch_failed", "no_date"}

\* crawl_paper: what it leaves of page count, URL cache and files
crawl_paper(url, outcome, count, cache, stored) ==
    IF url \in cache \/ outcome # "ok" \/ FileOf[url] \in stored
    THEN [count |-> count, cache |-> cache, stored |-> stored, saved |-> 0]
    ELSE [count |-> count + 1, cache |-> cache \cup {url},
          stored |-> stored \cup {FileOf[url]}, saved |-> 1]

\* "while current_url and self.page_count.need_more()": current_url is the
\* start URL throughout, so the test is need_more alone
PpLoopTest ==
    /\ pp_pc = "test"
    /\ IF need_more(pp_count)
         THEN /\ pp_pc' = "page"
              /\ pp_next' = 1
              /\ pp_saved' = 0
         ELSE /\ pp_pc' = "ended"
              /\ UNCHANGED <<pp_next, pp_saved>>
    /\ UNCHANGED <<pp_listing, pp_count, pp_cache, pp_stored>>
    /\ UNCHANGED nonpp

\* the pass comes to its next link: crawl_paper, then "if not need_more():
\* return"
PpPaper ==
    /\ pp_pc = "page"
    /\ pp_next <= Len(pp_listing)
    /\ \E outcome \in PaperOutcomes :
         LET r == crawl_paper(pp_listing[pp_next], outcome, pp_count, pp_cache, pp_stored)
         IN /\ pp_count' = r.count
            /\ pp_cache' = r.cache
            /\ pp_stored' = r.stored
            /\ pp_saved' = pp_saved + r.saved
            /\ pp_pc' = IF need_more(r.count) THEN "page" ELSE "test"
    /\ pp_next' = pp_next + 1
    /\ UNCHANGED pp_listing
    /\ UNCHANGED nonpp

\* the pass has no link left: _crawl_page returns
PpPageEnd ==
    /\ pp_pc = "page"
    /\ pp_next > Len(pp_listing)
    /\ pp_pc' = "test"
    /\ UNCHANGED <<pp_listing, pp_count, pp_cache, pp_stored, pp_next, pp_saved>>
    /\ UNCHANGED nonpp

\* loading the start page fails for good (WebDriverException after the
\* retries): _crawl_page raises and crawl's except branch ends the loop
PpPageRaises ==
    /\ pp_pc = "page"
    /\ pp_next = 1
    /\ pp_pc' = "ended"
    /\ UNCHANGED <<pp_listing, pp_count, pp_cache, pp_stored, pp_next, pp_saved>>
    /\ UNCHANGED nonpp

\* any start page, and the cache and files earlier runs may have left: a
\* cached URL has its file
InitPaper ==
    /\ pass = "first"
    /\ cache_file = NoFile
    /\ files = [p \in Paths |-> NoUrl]
    /\ files_first = [p \in Paths |-> NoUrl]
    /\ Constructed(Domains, cache_file)
    /\ ExIdle
    /\ DlIdle
    /\ RbIdle
    /\ LkIdle
    /\ DtIdle
    /\ pp_listing \in Listings
    /\ pp_count = 0
    /\ pp_cache \in SUBSET Papers
    /\ pp_stored \in {S \in SUBSET PaperFiles : \A p \in pp_cache : FileOf[p] \in S}
    /\ pp_next = 1
    /\ pp_saved = 0
    /\ pp_pc = "test"

NextPaper == PpLoopTest \/ PpPaper \/ PpPageEnd \/ PpPageRaises

\* crawl runs as one coroutine: it goes on while it has a step to take
SpecPaper == InitPaper /\ [][NextPaper]_vars /\ WF_vars(NextPaper)

(***************************************************************************)
(* Properties of the crawl (Spec).                                         *)
(***************************************************************************)
\* the path save_article derives for the article of the page at u
PathOf(u) == ArticlePath(MkArticle(u, Web[u]), get_site_config(u))

ArticleUrls == {u \in Urls : is_article_page(u, get_site_config(u))}

\* C1: the per-domain count of saved articles never exceeds MaxPerSite and
\* the global count never exceeds MaxArticles; once a domain's cap is reached
\* no file of that domain is written any more, and once the global cap is
\* reached no file is written at all.
C1_QuotaCapsHold ==
    /\ [](/\ \A d \in Domains : saved_articles_count[d] <= MaxPerSite
          /\ total_articles <= MaxArticles)
    /\ [][/\ \A d \in Domains :
               saved_articles_count[d] >= MaxPerSite =>
                  \A p \in Paths : p[2] = d => files'[p] = files[p]
          /\ total_articles >= MaxArticles => files' = files]_vars

\* a domain's cap is reached, and an article page fetched without any fault
\* was left unsaved
C1_Witness ==
    /\ faults = 0
    /\ \E u \in ArticleUrls :
         LET c == get_site_config(u)
         IN /\ saved_articles_count[c] = MaxPerSite
            /\ \E d \in Domains : task[d][u] = "ok"
            /\ commits[u] = 0
            /\ u \notin url_cache[c]
            /\ files[PathOf(u)] = NoUrl

\* C2: within one run the commit step (file written, counters incremented,
\* URL marked cached) happens at most once for a URL, also when the URL is
\* fetched by the tasks of several domains.
C2_CommitAtMostOnce == \A u \in Urls : commits[u] <= 1

\* a URL was dispatched and fetched by both domains and committed once
C2_Witness ==
    \E u \in Urls :
       /\ \A d \in Domains : dispatched[d][u] = 1 /\ task[d][u] \in {"ok", "joined"}
       /\ commits[u] = 1

\* C3 as stated: a domain's frontier never holds a URL more than once.
C3_FrontierHoldsUrlOnce ==
    \A d \in Domains, u \in Urls : CountIn(url_queues[d], u) <= 1

\* C3, amended: the visited test precedes every dispatch, not every enqueue:
\* a step creates a fetch task for a URL in a domain only if the URL was not
\* in that domain's visited set, creates one task only, and puts the URL into
\* the visited set.
C3_VisitedTestBeforeDispatch ==
    [][\A d \in Domains, u \in Urls :
          dispatched'[d][u] # dispatched[d][u] =>
             /\ u \notin visited_urls[d]
             /\ u \in visited_urls'[d]
             /\ dispatched'[d][u] = dispatched[d][u] + 1]_vars

\* a URL waits in the frontier of a domain that has dispatched it already
C3_Witness ==
    \E d \in Domains, u \in Urls :
       /\ CountIn(url_queues[d], u) >= 1
       /\ u \in visited_urls[d]
       /\ dispatched[d][u] = 1

\* C4: a URL is added to the dedup cache only in a step in which save_article
\* wrote its file; a failed or skipped save adds nothing to the cache.
C4_CachedOnlyWithFileWritten ==
    [][\A d \in Domains, u \in Urls :
          (u \in url_cache'[d] /\ u \notin url_cache[d]) =>
             /\ \E p \in Paths : p[2] = d /\ files'[p] = u /\ files[p] # u
             /\ commits'[u] = commits[u] + 1]_vars

\* a write failed: the file is truncated, and the URL that was fetched is in
\* no cache
C4_Witness ==
    \E u \in ArticleUrls :
       /\ files[PathOf(u)] = Truncated
       /\ \E d \in Domains : task[d][u] = "ok"
       /\ commits[u] = 0
       /\ \A d \in Domains : u \notin url_cache[d]

\* C5 as stated: when crawl() has returned, every URL of the in-memory dedup
\* cache is in the cache file.
C5_CacheFlushedWhenReturned ==
    crawl_pc \in {"returned", "exited"} =>
       \A d \in Domains : url_cache[d] \subseteq LoadedCache(cache_file)[d]

\* C6 as stated: no fetch is dispatched for a URL that is in the dedup cache
\* of the dispatching domain.
C6_NoFetchOfCachedUrl ==
    [][\A d \in Domains, u \in Urls :
          dispatched'[d][u] # dispatched[d][u] => u \notin url_cache[d]]_vars

\* C6, amended: a URL in a domain's dedup cache is fetched again, but no file
\* is written for it in that domain and no save is counted for it there, and
\* it stays in the cache for the rest of the run.
C6_CachedUrlNotSavedAgain ==
    [][\A d \in Domains, u \in Urls :
          u \in url_cache[d] =>
             /\ u \in url_cache'[d]
             /\ \A p \in Paths : (p[2] = d /\ files'[p] = u) => files[p] = u
             /\ get_site_config(u) = d => commits'[u] = commits[u]]_vars

\* a URL that the cache file listed was fetched again and not saved
C6_Witness ==
    \E d \in Domains, u \in ArticleUrls :
       /\ u \in LoadedCache(OldFile)[d]
       /\ u \in url_cache[d]
       /\ dispatched[d][u] = 1
       /\ task[d][u] = "ok"
       /\ commits[u] = 0
       /\ \A p \in Paths : files[p] # u

\* C7: once a URL's article was saved in this run, a fetch of the same page
\* that runs the save path again changes no file, no counter, no cache entry
\* and not the cache file.
C7_SecondSaveIsNoOp ==
    [][\A d \in Domains, u \in Urls :
          (commits[u] >= 1 /\ task[d][u] = "inflight" /\ task'[d][u] = "ok") =>
             UNCHANGED <<files, saved_articles_count, total_articles, url_cache,
                         cache_file, commits>>]_vars

\* the page of a saved article was fetched a second time: one file, one count
C7_Witness ==
    \E u \in ArticleUrls :
       /\ \A d \in Domains : task[d][u] = "ok"
       /\ commits[u] = 1
       /\ files[PathOf(u)] = u
       /\ saved_articles_count[get_site_config(u)] = 1
       /\ total_articles = 1

\* C10: in every domain the fetches in flight, and the fetch tasks created
\* and not finished, are at most ConcurrentTasks; the bound is per domain.
C10_ConcurrencyBounded ==
    \A d \in Domains :
       /\ Cardinality(InFlight(d)) <= ConcurrentTasks
       /\ Cardinality(Unfinished(d)) <= ConcurrentTasks

\* every domain has ConcurrentTasks fetches in flight at once, one of them
\* with more URLs waiting in its frontier
C10_Witness ==
    /\ \A d \in Domains : Cardinality(InFlight(d)) = ConcurrentTasks
    /\ \E d \in Domains : url_queues[d] # <<>>

(***************************************************************************)
(* Properties of two passes (SpecTwoPass).                                 *)
(***************************************************************************)
\* C8 as stated: the second pass leaves the files as the first pass left
\* them.
C8_SecondPassWritesNothing == pass = "second" => files = files_first

\* C8, amended: in the second pass no save is committed for a URL while the
\* file at its path holds its article, and the fetch of its page changes no
\* file, whether or not the URL is in the reloaded cache.  Files the first
\* pass did not leave in place can be written, also over another URL's file
\* of the same path.
C8_SecondPassKeepsPersisted ==
    [][(pass = "second" /\ pass' = "second") =>
          \A u \in ArticleUrls :
             files[PathOf(u)] = u =>
                /\ commits'[u] = commits[u]
                /\ \A d \in Domains :
                     (task[d][u] = "inflight" /\ task'[d][u] = "ok") =>
                        files' = files]_vars

\* in the second pass a page was fetched whose URL the reloaded cache does
\* not hold and whose file the first pass wrote: nothing was saved for it
C8_Witness ==
    /\ pass = "second"
    /\ \E u \in ArticleUrls :
          /\ \E d \in Domains : task[d][u] = "ok"
          /\ u \notin url_cache[get_site_config(u)]
          /\ files_first[PathOf(u)] = u
          /\ files[PathOf(u)] = u
          /\ commits[u] = 0

(***************************************************************************)
(* Properties of the extraction (SpecExtract).                             *)
(***************************************************************************)
Complete(a) == a.title # <<>> /\ a.age # NoDate /\ a.bodyLen > 0

\* C9: extraction returns an article with non-empty title, publish date and
\* body, or no article; save_article is called only with such an article, and
\* a page lacking a field leaves files, counters and cache as they were.
C9_OnlyCompleteArticles ==
    /\ ex_article # NoArticle => Complete(ex_article)
    /\ ex_stage = "saved" => ex_article # NoArticle
    /\ (ex_stage # "idle" /\ ~Complete(ex_page)) =>
          /\ \A p \in Paths : files[p] = NoUrl
          /\ total_articles = 0
          /\ url_cache = LoadedCache(cache_file)

\* _process_article returned for a page with a title and a body but no date,
\* and for that page nothing was saved
C9_Witness ==
    /\ ex_stage = "skipped"
    /\ ex_page.title # <<>>
    /\ ex_page.bodyLen >= MinSummaryLen
    /\ ex_page.age = NoDate
    /\ ~is_cached(ex_url, get_site_config(ex_url))

(***************************************************************************)
(* Cancellation, isolation of the domains, errors (Spec).                  *)
(***************************************************************************)
\* C11: when a domain's wait returns with the global or the per-site cap
\* reached, every fetch task of the domain that is still pending is cancelled
\* in that step, crawl_site ends without creating a task, and no fetch is
\* dispatched for the domain once its crawl_site has ended.
C11_CapAtWakeCancelsPending ==
    [][\A d \in Domains :
          /\ (/\ site_pc[d] = "wait"
              /\ site_pc'[d] = "done"
              /\ (total_articles >= MaxArticles
                    \/ saved_articles_count[d] >= MaxPerSite)) =>
                /\ \A u \in Urls :
                      task[d][u] \in {"created", "inflight"} =>
                         task'[d][u] = "cancelled"
                /\ dispatched'[d] = dispatched[d]
                /\ url_queues'[d] = url_queues[d]
          /\ site_pc[d] \in {"done", "joined", "cancelled"} =>
                dispatched'[d] = dispatched[d]]_vars

\* a domain at its per-site cap ended its crawl_site with a pending fetch
\* cancelled and URLs left in its frontier, while crawl() is still running
C11_Witness ==
    \E d \in Domains :
       /\ crawl_pc = "running"
       /\ site_pc[d] = "done"
       /\ saved_articles_count[d] = MaxPerSite
       /\ total_articles < MaxArticles
       /\ \E u \in Urls : task[d][u] = "cancelled"

\* C12 as stated: when crawl() has returned with the global cap reached, no
\* fetch task of any domain is left created or in flight.
C12_NoFetchLeftAtReturn ==
    (crawl_pc = "returned" /\ total_articles >= MaxArticles) =>
       \A d \in Domains, u \in Urls : task[d][u] \notin {"created", "inflight"}

\* C13: a step in which a domain's crawl_site ends (cap reached, or frontier
\* exhausted) leaves the frontier, visited set, counter, fetch tasks and
\* crawl_site task of every other domain as they were; and while the global
\* cap is not reached no crawl_site task is cancelled and crawl() does not
\* return with a crawl_site task still active.
C13_SiteEndLeavesOthers ==
    [][/\ \A d \in Domains :
             (site_pc[d] \in {"new", "wait"} /\ site_pc'[d] = "done") =>
                \A e \in Domains \ {d} :
                   /\ url_queues'[e] = url_queues[e]
                   /\ visited_urls'[e] = visited_urls[e]
                   /\ saved_articles_count'[e] = saved_articles_count[e]
                   /\ task'[e] = task[e]
                   /\ site_pc'[e] = site_pc[e]
       /\ total_articles < MaxArticles =>
             \A e \in Domains :
                /\ site_pc'[e] = "cancelled" => site_pc[e] = "cancelled"
                /\ (site_pc[e] \in {"new", "wait"} /\ crawl_pc' # "running") =>
                      site_pc'[e] \notin {"new", "wait"}]_vars

\* one domain ended at its per-site cap and was joined by crawl(); the global
\* cap is not reached and another domain is waiting with a fetch in flight
C13_Witness ==
    \E d \in Domains, e \in Domains :
       /\ d # e
       /\ site_pc[d] = "joined"
       /\ saved_articles_count[d] = MaxPerSite
       /\ total_articles < MaxArticles
       /\ crawl_pc = "running"
       /\ site_pc[e] = "wait"
       /\ InFlight(e) # {}

\* C14: a fetch that fails (the downloader raised, or handling the page
\* raised) ends its task with no links, puts the URL into the domain's error
\* set and adds one to the domain's error count; it changes nothing else: no
\* crawl_site task, no other fetch task, no frontier, no file.  A domain's
\* crawl_site ends only with a cap reached or its frontier exhausted.
C14_ErrorDoesNotAbort ==
    [][/\ \A d \in Domains, u \in Urls :
             (task'[d][u] = "err" /\ task[d][u] # "err") =>
                /\ u \in error_urls'[d]
                /\ error_count'[d] = error_count[d] + 1
                /\ \A e \in Domains \ {d} :
                      error_urls'[e] = error_urls[e] /\ error_count'[e] = error_count[e]
                /\ \A e \in Domains, v \in Urls :
                      <<e, v>> # <<d, u>> => task'[e][v] = task[e][v]
                /\ UNCHANGED <<crawl_pc, site_pc, url_queues, visited_urls, files,
                               saved_articles_count, total_articles, url_cache>>
       /\ \A d \in Domains :
             (site_pc[d] = "wait" /\ site_pc'[d] = "done") =>
                \/ total_articles >= MaxArticles
                \/ saved_articles_count[d] >= MaxPerSite
                \/ url_queues'[d] = <<>>]_vars

\* a fetch of a domain failed and was handled by its crawl_site, which went
\* on: it waits for a fetch dispatched for another URL, and so does the
\* other domain
C14_Witness ==
    \E d \in Domains, u \in Urls :
       /\ task[d][u] = "joined"
       /\ u \in error_urls[d]
       /\ error_count[d] = 1
       /\ site_pc[d] = "wait"
       /\ \E v \in Urls : task[d][v] = "inflight" /\ Web[v].article
       /\ \A e \in Domains \ {d} : site_pc[e] = "wait" /\ InFlight(e) # {}

(***************************************************************************)
(* Termination (SpecFair).                                                 *)
(***************************************************************************)
\* C15: with a finite web and fetches that all return, every crawl_site task
\* ends and crawl() returns.
C15_CrawlTerminates ==
    <>(/\ crawl_pc \in {"returned", "exited"}
       /\ \A d \in Domains : site_pc[d] \notin {"new", "wait"})

\* crawl() returned after every domain exhausted its frontier below the caps,
\* one fetch having failed
C15_Witness ==
    /\ crawl_pc = "returned"
    /\ \A d \in Domains : site_pc[d] = "joined" /\ saved_articles_count[d] < MaxPerSite
    /\ total_articles < MaxArticles
    /\ \E d \in Domains : error_count[d] = 1

(***************************************************************************)
(* Properties of Downloader.get (SpecDownloader).                          *)
(***************************************************************************)
\* the requests call c has sent, as pairs of the call and the attempt
RequestsOf(c) == {r \in UNION {dl_carried[s] : s \in Sessions} : r[1] = c}

\* C16: a call whose URL lacks the scheme or the host, or whose host does
\* not resolve, never sends a request, never sleeps (neither the initial
\* delay nor a backoff), makes no attempt, and ends raising NetworkError
\* from the check that failed.
C16_BadUrlFailsFast ==
    \A c \in Calls :
        dl_url[c] # "ok" =>
            /\ RequestsOf(c) = {}
            /\ dl_outcomes[c] = <<>>
            /\ dl_sleeps[c] = 0
            /\ dl_local[c] = 0
            /\ dl_pc[c] \in {"new", "raised"}
            /\ dl_pc[c] = "raised" =>
                   /\ dl_result[c].value = "raise"
                   /\ dl_result[c].error.class = "NetworkError"
                   /\ dl_result[c].error.attempt = 0
                   /\ dl_result[c].error.kind =
                          IF dl_url[c] = "no_dns" THEN "dns" ELSE "invalid_url"

\* a call failed its DNS check while the other call, started before it, has
\* a request in flight
C16_Witness ==
    \E c, e \in Calls :
        /\ dl_url[c] = "no_dns" /\ dl_pc[c] = "raised"
        /\ dl_url[e] = "ok" /\ dl_pc[e] = "request"

\* call c went through the retry loop and is over
AfterAttempts(c) == dl_pc[c] \in {"returned", "raised"} /\ dl_outcomes[c] # <<>>

\* C17: a call makes at most retry_times attempts, one request each; only
\* its last attempt can have a 2xx response and the call then returns it; a
\* call that raises after attempts has made all retry_times attempts, every
\* one failed (timeout, transport or protocol error, non-2xx status, any
\* other exception), and it raises the error of the last one; there is one
\* backoff sleep after each failed attempt but the last, and none else.
C17_BoundedRetries ==
    \A c \in Calls :
        LET n == Len(dl_outcomes[c])
            sent == Cardinality(RequestsOf(c))
        IN /\ n <= RetryTimes
           /\ sent <= RetryTimes
           /\ sent = IF dl_pc[c] = "request" THEN n + 1 ELSE n
           /\ \A i \in 1 .. n : dl_outcomes[c][i] = "2xx" =>
                  /\ i = n
                  /\ dl_pc[c] \in {"finally", "returned"}
           /\ dl_pc[c] = "returned" =>
                  /\ dl_outcomes[c][n] = "2xx"
                  /\ dl_result[c].value = "response"
           /\ dl_pc[c] = "raised" /\ n > 0 =>
                  /\ n = RetryTimes
                  /\ \A i \in 1 .. n : dl_outcomes[c][i] # "2xx"
                  /\ dl_result[c] = [value |-> "raise", error |-> dl_last[c]]
                  /\ dl_last[c].attempt = n
                  /\ dl_last[c].class = dl_outcomes[c][n]
                  /\ dl_last[c].class = Classify(dl_last[c].kind)
           /\ dl_pc[c] = "backoff" =>
                  /\ n < RetryTimes
                  /\ dl_outcomes[c][n] # "2xx"
                  /\ dl_last[c].kind \in Outcomes \ {"2xx"}
           /\ dl_sleeps[c] = IF dl_pc[c] \in {"backoff", "closing", "request"} THEN n
                             ELSE IF n = 0 THEN 0 ELSE n - 1

\* one call has raised the NetworkError of its last attempt, a timeout,
\* after a first attempt that ended in another class of error, and the
\* other call has returned the response of a retry
C17_Witness ==
    \E c, e \in Calls :
        /\ AfterAttempts(c) /\ dl_pc[c] = "raised"
        /\ dl_outcomes[c][1] = "DownloaderError"
        /\ dl_result[c].error.kind = "timeout"
        /\ dl_sleeps[c] = RetryTimes - 1
        /\ AfterAttempts(e) /\ dl_pc[e] = "returned"
        /\ Len(dl_outcomes[e]) > 1

\* C18: every session created carries exactly one request, that of the
\* attempt that created it: no request of a later attempt, of the same call
\* or of the other, is sent on it, and a call waiting for its response holds
\* the session that carries just this request.
C18_SessionPerAttempt ==
    /\ \A s \in Sessions :
           Cardinality(dl_carried[s]) = IF s <= dl_made THEN 1 ELSE 0
    /\ \A c \in Calls :
           dl_pc[c] = "request" =>
               dl_carried[dl_local[c]] = {<<c, Len(dl_outcomes[c]) + 1>>}

\* both calls wait for a response, each on its own session; one of them is
\* at a retry, and the other call has closed its session under the request
C18_Witness ==
    \E c, e \in Calls :
        /\ dl_pc[c] = "request" /\ dl_pc[e] = "request"
        /\ dl_local[c] # dl_local[e]
        /\ dl_outcomes[c] # <<>>
        /\ dl_local[c] \in dl_closed
        /\ dl_session = dl_local[e]

(***************************************************************************)
(* Properties of RobotsParser (SpecRobots).                                *)
(***************************************************************************)
\* the URLs asked about
RobotsUrls == {"x", "y", "w"}

\* the text has no Disallow line for u in the group of *
StarAllows(text, u) ==
    ~ \E i \in 1 .. Len(text) : text[i].agent = "*" /\ text[i].path = u

\* C19: after this run's fetch of a domain's robots.txt ended in a status
\* other than 200, a timeout or an exception, is_url_allowed is true for
\* every URL of the domain; after it ended in 200, is_url_allowed is what
\* the text says for user-agent *.
C19_FailedAllowsParsedDecides ==
    \A d \in Domains : \A u \in RobotsUrls :
        /\ rb_fetched[d].status \in {"404", "timeout", "exception"} =>
               is_url_allowed(u, d)
        /\ rb_fetched[d].status = "200" =>
               (is_url_allowed(u, d) <=> StarAllows(rb_fetched[d].text, u))

\* the rules are up: one domain's fetch failed, the other's text forbids y to
\* everyone and x to one named agent, and is_url_allowed says so
C19_Witness ==
    \E d, e \in Domains :
        /\ rb_pc = "ready"
        /\ rb_fetched[d].status = "timeout"
        /\ rb_fetched[e].status = "200"
        /\ ~StarAllows(rb_fetched[e].text, "y")
        /\ ~is_url_allowed("y", e)
        /\ is_url_allowed("x", e)
        /\ is_url_allowed("y", d)

\* C20: a run that starts 7 days or more after the fetch of a domain's
\* robots.txt last failed does not take the domain as failed from the cache
\* file, so it fetches the domain's robots.txt again.
C20_FailureExpiresAfterTtl ==
    rb_pc = "constructed" =>
        \A d \in Domains :
            rb_failed_at[d] # NoStamp /\ rb_now - rb_failed_at[d] >= CacheTtl =>
                d \notin rb_failed

\* C21: once a run has its rules up, a domain whose robots.txt was fetched
\* and parsed less than 7 days ago, in this run or in an earlier one, has
\* is_url_allowed answer what those directives say for user-agent *.
C21_ParsedDirectivesOutliveRun ==
    rb_pc = "ready" =>
        \A d \in Domains :
            rb_parsed[d].at # NoStamp /\ rb_now - rb_parsed[d].at < CacheTtl =>
                \A u \in RobotsUrls :
                    is_url_allowed(u, d) <=> StarAllows(rb_parsed[d].text, u)

(***************************************************************************)
(* Properties of link filtering (SpecLinks).                               *)
(***************************************************************************)
\* the link is in what _extract_links returned, in the frontier, or fetched
Accepted(l) ==
    \/ \E i \in 1 .. Len(lk_links) : lk_links[i] = l
    \/ \E i \in 1 .. Len(lk_queue) : lk_queue[i] = l
    \/ l \in lk_fetched

\* C22: on every site, a link whose path carries a date more than 90 days
\* old is not returned by _extract_links, not enqueued and not fetched.
C22_OldDatedLinkRejected ==
    lk_link.date \notin {NoDate, BadDate} /\ lk_link.date > FreshDays =>
        ~Accepted(lk_link)

\* C23: a link that matches one of the exclude patterns of its site's
\* profile is not returned by _extract_links, not enqueued and not fetched.
C23_ExcludedLinkRejected ==
    lk_link.excl \in exclude_patterns(lk_site) => ~Accepted(lk_link)

(***************************************************************************)
(* The store's checks on one article (SpecExtract).                        *)
(***************************************************************************)
\* the page's date is older than the retention period, or its body is
\* shorter than the minimum
TooOldOrShort(page) ==
    \/ page.age # NoDate /\ page.age > RetentionDays
    \/ page.bodyLen < MinSummaryLen

\* C24: for a page whose date is more than retention_days days old, or whose
\* body has fewer than 50 characters, parse_article returns no article,
\* save_article is not called, no file exists, the counters are 0 and the
\* dedup cache is what was loaded.
C24_OldOrShortNeverPersisted ==
    (ex_stage # "idle" /\ TooOldOrShort(ex_page)) =>
        /\ ex_stage \in {"parse_article", "skipped", "saved"} => ex_article = NoArticle
        /\ ex_stage # "saved"
        /\ \A p \in Paths : files[p] = NoUrl
        /\ total_articles = 0
        /\ \A d \in Domains : saved_articles_count[d] = 0
        /\ url_cache = LoadedCache(cache_file)

\* _process_article returned for a page that has title, date and a body long
\* enough, and whose date is one day past the retention period
C24_Witness ==
    /\ ex_stage = "skipped"
    /\ ex_page.title # <<>>
    /\ ex_page.bodyLen >= MinSummaryLen
    /\ ex_page.age = RetentionDays + 1
    /\ ~is_cached(ex_url, get_site_config(ex_url))

(***************************************************************************)
(* The per-day cap and the counters (Spec).                                *)
(***************************************************************************)
\* C25: every save that counts an article for a site adds one to the
\* site's count of the day, the number get_today_article_count returns,
\* and that count never exceeds max_articles_per_day.
C25_PersistCountsAgainstDay ==
    /\ [](\A d \in Domains : get_today_article_count(d) <= MaxPerDay)
    /\ [][\A d \in Domains :
             saved_articles_count'[d] = saved_articles_count[d] + 1 =>
                 get_today_article_count(d)' = get_today_article_count(d) + 1]_vars

\* the files a step has written an article to
Written == {p \in Paths : files'[p] # files[p] /\ files'[p] \notin {NoUrl, Truncated}}

\* C26: in every step total_articles grows by the number of files the step
\* has written an article to, which is 0 or 1, and each site's counter by
\* the number of those under the site's directory: the counters grow by 1
\* with every successful write and do not change in any other step (a
\* rejected, skipped or failed save, the fetch of a page that is no
\* article, an error, a cancellation).
C26_CountersFollowWrites ==
    [][/\ Cardinality(Written) <= 1
       /\ total_articles' = total_articles + Cardinality(Written)
       /\ \A d \in Domains :
             saved_articles_count'[d] =
                 saved_articles_count[d] + Cardinality({p \in Written : p[2] = d})]_vars

\* one article is saved and counted, and the write of another failed and
\* left its file truncated and the counters alone
C26_Witness ==
    /\ total_articles = 1
    /\ \E p, q \in Paths :
          /\ files[p] = Truncated
          /\ files[q] \notin {NoUrl, Truncated}
    /\ \E u \in Urls : ~Web[u].article /\ \E d \in Domains : task[d][u] = "ok"

(***************************************************************************)
(* One file per counted article (SpecTwoPass, first pass).                 *)
(***************************************************************************)
\* the files that hold an article
ArticleFiles == {p \in Paths : files[p] \notin {NoUrl, Truncated}}

\* C27: in a run without file-system or fetch failures, started on an
\* empty save directory, the number of files holding an article equals
\* total_articles at every point: no counted save replaces the file of
\* another article.
C27_OneFilePerCountedArticle ==
    (pass = "first" /\ faults = 0) => Cardinality(ArticleFiles) = total_articles

(***************************************************************************)
(* Properties of the date extraction (SpecPublishDate, SpecDateText).      *)
(***************************************************************************)
\* the profile's source has a text that parses: by DateExtractor, or by the
\* date_format the profile gives
ProfileParses(page) ==
    \/ page.config # "none" /\ page.profile = "date"
    \/ page.config = "selectors_format" /\ page.profile = "format"

\* C28: the publish date is that of the first source, in the order body,
\* metadata, profile, URL path, that has a date that parses; so a page
\* whose URL path carries a valid date gets a publish date.
C28_FirstParseableSourceWins ==
    pd_pc = "done" =>
        pd_result = IF pd_page.body = "date" THEN BodyDate
                    ELSE IF pd_page.meta = "date" THEN MetaDate
                    ELSE IF ProfileParses(pd_page) THEN ProfileDate
                    ELSE IF pd_page.url = "date" THEN UrlDate
                    ELSE NoResult

\* the date of a well-formed input: the one it was written from, in the
\* current year when the format has no year
Expected(written, now) ==
    [year |-> IF written.format \in YearlessFormats THEN now.year ELSE written.year,
     month |-> written.month, day |-> written.day]

WellFormed(written) ==
    /\ written.format \in Formats
    /\ <<written.year, written.month, written.day>> \in GoodDates

\* C29: a date written in any format of the pattern table, with or without
\* a known prefix, is read back as that date, in the current year when the
\* format has no year.
C29_FormatsReadBack ==
    [][(de_pc \in {"call", "call_again"} /\ WellFormed(de_written)) =>
           de_result' = Expected(de_written, de_now)]_vars

\* year, month or day of the input lies outside the range of the validation
OutOfRange(written) == written.month \notin 1 .. 12 \/ written.day \notin 1 .. 31

\* C30: a date written with a two-digit year yy is read as the year
\* 2000 + yy; no result has a month outside 1..12 or a day outside 1..31; a
\* numeric text whose month or day is out of range, or that is no date of
\* the calendar, the empty text, a text without a date and a text with an
\* unknown month name give None; and after a rejected match the later
\* patterns are tried, so "2024-13-01 7 Dec 2023" gives 7 December 2023.
C30_ShortYearAndRejection ==
    [][(de_pc \in {"call", "call_again"}) =>
          /\ de_result' # NoResult => de_result'.month \in 1 .. 12 /\ de_result'.day \in 1 .. 31
          /\ (de_written.format \in ShortFormats /\ WellFormed(de_written)) =>
                 de_result' = [year |-> 2000 + (de_written.year % 100),
                               month |-> de_written.month, day |-> de_written.day]
          /\ (de_written.format \in NumericFormats \cup ShortFormats /\ ~WellFormed(de_written)) =>
                 de_result' = NoResult
          /\ (de_written.format \in Formats /\ de_written.month \notin 1 .. 12) =>
                 de_result' = NoResult
          /\ de_written \in {Literal("empty"), Literal("invalid date"), Literal("Foo 7"),
                             Literal("7 Foo")} => de_result' = NoResult
          /\ de_written = Literal("2024-13-01 7 Dec 2023") =>
                 de_result' = [year |-> 2023, month |-> 12, day |-> 7]]_vars

\* a date with a two-digit year was read as a year of this century, and a
\* text whose day is out of range has then given None
C30_Witness ==
    /\ de_pc = "returned_again"
    /\ de_written.format \in NumericFormats
    /\ OutOfRange(de_written)
    /\ de_result = NoResult
    /\ \E e \in de_cache :
          /\ e.text = RenderDate("24-03-22", 2024, 3, 22)
          /\ e.result = [year |-> 2024, month |-> 3, day |-> 22]

\* the days a relative expression lies back at a time of day
DaysBack(name, minute) ==
    CASE name = "5fenzhongqian" -> IF minute >= 5 THEN 0 ELSE 1
      [] name = "2xiaoshiqian" -> IF minute >= 120 THEN 0 ELSE 1
      [] name = "3tianqian" -> 3
      [] name = "zuotian" -> 1
      [] name = "qiantian" -> 2
      [] name = "ganggang" -> 0

RelativeLiterals == {"5fenzhongqian", "2xiaoshiqian", "3tianqian", "zuotian", "qiantian",
                     "ganggang"}

\* C31: every call of extract_date with a relative expression, a repeated
\* call after the clock has advanced included, returns the day of the
\* call minus the stated offset.
C31_RelativeAgainstClockOfCall ==
    [][(/\ de_pc \in {"call", "call_again"}
        /\ de_written.format = "literal"
        /\ de_written.name \in RelativeLiterals) =>
           de_result' = MinusDays(DayOf(de_now), DaysBack(de_written.name, de_now.minute))]_vars

\* a line with CJK text that the loop keeps when it comes to it first
AcceptedCjk(line) == line = CjkLine

\* the third of three blank lines in a row with an accepted CJK line
\* somewhere before them
StopsAt(lines, i) ==
    /\ i >= 4
    /\ \A j \in i - 2 .. i : lines[j] = BlankLine
    /\ \E j \in 1 .. i - 3 : AcceptedCjk(lines[j])

\* the line at which the processing stops; past the last line when none
StopPoint(lines) ==
    IF \E i \in 1 .. Len(lines) : StopsAt(lines, i)
    THEN CHOOSE i \in 1 .. Len(lines) :
             StopsAt(lines, i) /\ \A j \in 1 .. i - 1 : ~StopsAt(lines, j)
    ELSE Len(lines) + 1

\* a line the loop keeps: text that passes the checks, met for the first time
Keepable(lines, i) ==
    /\ lines[i] \in {CjkLine, LatinLine}
    /\ \A j \in 1 .. i - 1 : lines[j] # lines[i]

\* C32: the lines are processed in order up to the third of three blank
\* lines in a row that follow an accepted CJK line; no line after that
\* point is in the output, and every line before it that passes the checks
\* is, whatever runs of blank lines come before the first CJK line.
C32_StopsAfterThreeBlanks ==
    cl_pc = "joined" =>
        {cl_kept[k] : k \in 1 .. Len(cl_kept)} =
            {i \in 1 .. Len(cl_lines) : i < StopPoint(cl_lines) /\ Keepable(cl_lines, i)}

\* the loop has stopped at three blank lines and left a sentence unread
C32_Witness ==
    /\ cl_pc = "joined"
    /\ cl_lines = <<CjkLine, BlankLine, BlankLine, BlankLine, LatinLine>>
    /\ cl_kept = <<1>>

\* C33: with the global or the per-site cap reached, no step appends a
\* link to the domain's queue: the frontier stays as it is.
C33_NoEnqueueAtCap ==
    [][\A d \in Domains :
           (total_articles >= MaxArticles \/ saved_articles_count[d] >= MaxPerSite) =>
               url_queues'[d] = url_queues[d]]_vars

\* a finished task that returned links was met with the cap reached, and
\* its links were left out of the queue
C33_Witness ==
    \E d \in Domains : \E u \in Urls :
        /\ site_pc[d] = "done"
        /\ saved_articles_count[d] >= MaxPerSite
        /\ task[d][u] = "joined"
        /\ extract_links(u, d) # <<>>
        /\ url_queues[d] = <<>>
        /\ Web[u].article

\* the link passes every check but that of its date: the same link with a
\* date of today is accepted
PassesOtherChecks(l, site) == ~l.anchor /\ IsValidUrl([l EXCEPT !.date = Today], site)

\* C34: a link that passes every other check and whose path carries no
\* date, or digits in the place of a date that are no calendar date, is
\* accepted.
C34_UnparsedDateAccepted ==
    (/\ lk_pc # "page"
     /\ lk_link.date \in {NoDate, BadDate}
     /\ PassesOtherChecks(lk_link, lk_site)) => Accepted(lk_link)

\* C35: a missing, unreadable or corrupt url_cache.json or
\* robots_cache.json does not abort startup: neither constructor raises,
\* after a dedup file that could not be loaded is_cached is false for every
\* URL, and is_url_allowed answers True for every URL of every domain
CacheFileUnusable == cache_file = NoFile \/ cache_file \in DamagedCacheFiles

RobotsFileUnusable == rb_file = NoEntries \/ rb_file \in DamagedRobotsFiles

C35_StartupSurvivesBadFiles ==
    /\ rb_pc # "raised"
    /\ crawl_pc # "raised"
    /\ (rb_pc = "constructed" /\ RobotsFileUnusable) =>
           \A d \in Domains : \A u \in Urls : is_url_allowed(u, d)
    /\ (crawl_pc = "init" /\ CacheFileUnusable) =>
           \A d \in Domains : \A u \in Urls : ~is_cached(u, d)

\* both files damaged, the robots file after a fresh entry, and the crawler
\* constructed
C35_Witness ==
    /\ crawl_pc = "init"
    /\ rb_pc = "constructed"
    /\ cache_file \in DamagedCacheFiles
    /\ cache_file.damage = "bad_entry"
    /\ rb_file \in DamagedRobotsFiles
    /\ rb_file.damage = "bad_entry"
    /\ rb_failed = {D1}

\* C36: within one run at most one fetch task is created for a pair of
\* domain and URL, however often the URL was found as a link; a URL taken
\* from the queue while in visited_urls[domain] gets no task
C36_FetchedAtMostOnce ==
    \A d \in Domains : \A u \in Urls : dispatched[d][u] <= 1

\* the start page's links were enqueued, one URL twice, the queue was
\* drained, and that URL was fetched once
C36_Witness ==
    \E d \in Domains, u \in Urls :
       /\ task[d][StartUrl[d]] = "joined"
       /\ CountIn(extract_links(StartUrl[d], d), u) = 2
       /\ url_queues[d] = <<>>
       /\ CountIn(url_queues[d], u) = 0
       /\ dispatched[d][u] = 1
       /\ ~CapReached(d)

\* C37 as stated: a step in which a domain's crawl loop ends with neither
\* cap reached leaves no fetch task of the domain unfinished and no URL in
\* its queue.
C37_LoopEndsOnlyWhenDrained ==
    [][\A d \in Domains :
          (/\ site_pc[d] \in {"new", "wait"}
           /\ site_pc'[d] = "done"
           /\ total_articles < MaxArticles
           /\ saved_articles_count[d] < MaxPerSite) =>
             /\ \A u \in Urls : task'[d][u] \notin {"created", "inflight"}
             /\ url_queues'[d] = <<>>]_vars

\* C38 as stated: once crawl_site has returned for a domain, no fetch task
\* of the domain is created or in flight, and the domain's error set and
\* error statistics no longer change.
C38_NoFetchAfterSiteReturn ==
    [][\A d \in Domains :
          site_pc[d] \in {"done", "joined"} =>
             /\ \A u \in Urls : task[d][u] \notin {"created", "inflight"}
             /\ error_urls'[d] = error_urls[d]
             /\ error_count'[d] = error_count[d]]_vars

\* C39 as stated: no session is closed while the request of a get call is
\* in flight on it.
C39_NoSessionClosedUnderRequest ==
    \A c \in Calls : dl_pc[c] = "request" => dl_local[c] \notin dl_closed

\* C40 as stated: PaperCrawler.crawl terminates: its loop ends once the
\* page count has reached max_pages_per_source, and it ends when a pass
\* over the start page has saved no new paper.
C40_CrawlTerminates == <>(pp_pc = "ended")

=============================================================================
